---- MODULE Spec2Model ----
(***************************************************************************)
(* Crisis simulation: the response parser, the directive interpreter       *)
(* (update_game_state) and the session state machine of                    *)
(* frontend/crisis_simulation.py and frontend/crisis_simulation_updated.py *)
(* with the backend relay of backend/app/services.py and routes.py.        *)
(*                                                                         *)
(* Python strings are TLA+ strings (TLC evaluates Len, SubSeq and \o on    *)
(* them); the regular expressions of the source are translated into        *)
(* matchers over character positions.  The alphabet is ASCII.              *)
(***************************************************************************)
EXTENDS Integers, Sequences, FiniteSets, TLC

(***************************************************************************)
(* Characters and character classes of Python's re module                  *)
(***************************************************************************)
Ch(s, i) == SubSeq(s, i, i)

LowerAlpha == "abcdefghijklmnopqrstuvwxyz"

UpperAlpha == "ABCDEFGHIJKLMNOPQRSTUVWXYZ"

DigitChars == "0123456789"

Lowers == {Ch(LowerAlpha, i) : i \in 1..26}

Uppers == {Ch(UpperAlpha, i) : i \in 1..26}

\* \d
Digit == {Ch(DigitChars, i) : i \in 1..10}

\* \w
Word == Lowers \cup Uppers \cup Digit \cup {"_"}

\* [\w\.]
WordDot == Word \cup {"."}

\* \s
Space == {" ", "\t", "\n", "\r"}

\* ["']
Quote == {"\"", "'"}

\* re.IGNORECASE folds the letters of the text before comparing
LowerOf == [c \in Uppers |-> Ch(LowerAlpha, CHOOSE i \in 1..26 : Ch(UpperAlpha, i) = c)]

ToLower(c) == IF c \in Uppers THEN LowerOf[c] ELSE c

\* a literal of a pattern at position i, letters compared case-insensitively
LitCI(s, i, lit) ==
    /\ i >= 1
    /\ i + Len(lit) - 1 <= Len(s)
    /\ \A k \in 1..Len(lit) : ToLower(Ch(s, i + k - 1)) = Ch(lit, k)

\* a literal of a pattern at position i, compared exactly
Lit(s, i, lit) ==
    /\ i >= 1
    /\ i + Len(lit) - 1 <= Len(s)
    /\ SubSeq(s, i, i + Len(lit) - 1) = lit

\* end of a greedy run of characters of class cls that starts at i
RECURSIVE Span(_, _, _)
Span(s, i, cls) ==
    IF i <= Len(s) /\ Ch(s, i) \in cls THEN Span(s, i + 1, cls) ELSE i

\* first position >= i that holds a newline, Len(s) + 1 when there is none:
\* the furthest a "." of a pattern without re.DOTALL can reach
RECURSIVE LineEnd(_, _)
LineEnd(s, i) ==
    IF i <= Len(s) /\ Ch(s, i) # "\n" THEN LineEnd(s, i + 1) ELSE i

\* "$" without re.MULTILINE: the end of the text, or just before a final newline
AtEnd(s, i) == i = Len(s) + 1 \/ (i = Len(s) /\ Ch(s, i) = "\n")

Min(S) == CHOOSE x \in S : \A y \in S : x <= y

NoMatch == [ok |-> FALSE]

(***************************************************************************)
(* str methods                                                             *)
(***************************************************************************)
RECURSIVE RSpan(_, _)
RSpan(s, j) == IF j >= 1 /\ Ch(s, j) \in Space THEN RSpan(s, j - 1) ELSE j

\* str.strip()
strip(s) == SubSeq(s, Span(s, 1, Space), RSpan(s, Len(s)))

\* str.isdigit()
isdigit(s) == Len(s) > 0 /\ \A i \in 1..Len(s) : Ch(s, i) \in Digit

\* str.count('.')
count_dot(s) == Cardinality({i \in 1..Len(s) : Ch(s, i) = "."})

\* str.replace('.', '', 1)
replace_dot_once(s) ==
    LET D == {i \in 1..Len(s) : Ch(s, i) = "."}
    IN  IF D = {} THEN s ELSE SubSeq(s, 1, Min(D) - 1) \o SubSeq(s, Min(D) + 1, Len(s))

\* needle in hay, for two strings
Contains(hay, needle) ==
    \E i \in 1..(Len(hay) - Len(needle) + 1) : SubSeq(hay, i, i + Len(needle) - 1) = needle

DigitVal(c) == (CHOOSE i \in 1..10 : Ch(DigitChars, i) = c) - 1

\* int(s) for a string of decimal digits
RECURSIVE int(_)
int(s) ==
    IF Len(s) = 0 THEN 0
    ELSE 10 * int(SubSeq(s, 1, Len(s) - 1)) + DigitVal(Ch(s, Len(s)))

\* str(n) for n >= 0, as the f-string f"Day {n}" formats it
RECURSIVE str(_)
str(n) ==
    IF n < 10 THEN Ch(DigitChars, n + 1)
    ELSE str(n \div 10) \o Ch(DigitChars, (n % 10) + 1)

\* str.split('.')
RECURSIVE split_dot(_)
split_dot(s) ==
    LET D == {i \in 1..Len(s) : Ch(s, i) = "."}
    IN  IF D = {} THEN <<s>>
        ELSE <<SubSeq(s, 1, Min(D) - 1)>> \o split_dot(SubSeq(s, Min(D) + 1, Len(s)))

(***************************************************************************)
(* Values of the JSON-like state tree.  A Python value is a tagged record: *)
(* an int, a float (n / 10^d, kept normalised), a str, a dict (a function  *)
(* from key strings to values) or a list.                                  *)
(***************************************************************************)
IntV(n) == [t |-> "int", i |-> n]

StrV(s) == [t |-> "str", s |-> s]

DictV(m) == [t |-> "dict", m |-> m]

ListV(l) == [t |-> "list", l |-> l]

EmptyDict == DictV(<<>>)

RECURSIVE FloatV(_, _)
FloatV(n, d) ==
    IF d > 0 /\ n % 10 = 0 THEN FloatV(n \div 10, d - 1)
    ELSE [t |-> "float", n |-> n, d |-> d]

RECURSIVE Pow10(_)
Pow10(d) == IF d = 0 THEN 1 ELSE 10 * Pow10(d - 1)

\* float(s) for digits with at most one decimal point
float(s) ==
    LET D == {i \in 1..Len(s) : Ch(s, i) = "."}
    IN  IF D = {} THEN FloatV(int(s), 0)
        ELSE FloatV(int(replace_dot_once(s)), Len(s) - Min(D))

IsNumber(v) == v.t \in {"int", "float"}

\* v + k for a number v and an int k (k may be negative)
AddInt(v, k) ==
    IF v.t = "int" THEN IntV(v.i + k) ELSE FloatV(v.n + k * Pow10(v.d), v.d)

\* v <= 0 for a number v
LeqZero(v) == IF v.t = "int" THEN v.i <= 0 ELSE v.n <= 0

\* max(0, v): Python returns the first argument unless the second is greater
max0(v) == IF LeqZero(v) THEN IntV(0) ELSE v

\* key in d / d[key] / d[key] = v for a dict value d
Has(d, key) == key \in DOMAIN d.m

Get(d, key) == d.m[key]

Put(d, key, v) == DictV([x \in (DOMAIN d.m) \cup {key} |-> IF x = key THEN v ELSE d.m[x]])

\* the operator "key in c" raises TypeError for a number
InRaises(c) == IsNumber(c)

\* key in c for a dict (its keys), a str (substring) or a list (an element)
In(key, c) ==
    CASE c.t = "dict" -> Has(c, key)
      [] c.t = "str"  -> Contains(c.s, key)
      [] c.t = "list" -> \E i \in 1..Len(c.l) : c.l[i] = StrV(key)
      [] OTHER        -> FALSE

\* outcome of handling one modification: the state, and whether the handler
\* raised (the except clause of the loop then reports it with st.error)
Done(state) == [state |-> state, raised |-> FALSE]

Raised(state) == [state |-> state, raised |-> TRUE]

(***************************************************************************)
(* The patterns of update_game_state.  Each XAt(mod, p) is the attempt of  *)
(* the pattern at start position p; re.search takes the leftmost start at  *)
(* which the attempt succeeds.                                             *)
(***************************************************************************)

\* <verb>\s+resources\.(\w+)\s+<prep>\s+(\d+)
ResourceAt(verb, prep, mod, p) ==
    LET a == p + Len(verb)
        b == Span(mod, a, Space)
        c == b + Len("resources.")
        d == Span(mod, c, Word)
        e == Span(mod, d, Space)
        f == e + Len(prep)
        g == Span(mod, f, Space)
        h == Span(mod, g, Digit)
    IN  IF /\ LitCI(mod, p, verb)
           /\ b > a
           /\ LitCI(mod, b, "resources.")
           /\ d > c
           /\ e > d
           /\ LitCI(mod, e, prep)
           /\ g > f
           /\ h > g
        THEN [ok |-> TRUE, resource |-> SubSeq(mod, c, d - 1), amount |-> SubSeq(mod, g, h - 1)]
        ELSE NoMatch

\* ["']?(.*?)["']?$ : the optional opening quote is taken when present, the
\* lazy group stops at the first position from which ["']?$ succeeds
TailAt(mod, i) ==
    LET a == IF i <= Len(mod) /\ Ch(mod, i) \in Quote THEN i + 1 ELSE i
        RestOk(j) == AtEnd(mod, j) \/ (j <= Len(mod) /\ Ch(mod, j) \in Quote /\ AtEnd(mod, j + 1))
        cand == {j \in a..LineEnd(mod, a) : RestOk(j)}
    IN  IF cand = {} THEN NoMatch ELSE [ok |-> TRUE, text |-> SubSeq(mod, a, Min(cand) - 1)]

\* leftmost successful start of a pattern, 0 when there is none
Leftmost(starts) == IF starts = {} THEN 0 ELSE Min(starts)

\* re.search(r"decrease\s+resources\.(\w+)\s+by\s+(\d+)", mod, re.IGNORECASE)
decrease_match(mod) ==
    LET p == Leftmost({q \in 1..Len(mod) : ResourceAt("decrease", "by", mod, q).ok})
    IN  IF p = 0 THEN NoMatch ELSE ResourceAt("decrease", "by", mod, p)

\* re.search(r"increase\s+resources\.(\w+)\s+by\s+(\d+)", mod, re.IGNORECASE)
increase_match(mod) ==
    LET p == Leftmost({q \in 1..Len(mod) : ResourceAt("increase", "by", mod, q).ok})
    IN  IF p = 0 THEN NoMatch ELSE ResourceAt("increase", "by", mod, p)

\* re.search(r"set\s+resources\.(\w+)\s+to\s+(\d+)", mod, re.IGNORECASE)
set_match(mod) ==
    LET p == Leftmost({q \in 1..Len(mod) : ResourceAt("set", "to", mod, q).ok})
    IN  IF p = 0 THEN NoMatch ELSE ResourceAt("set", "to", mod, p)

\* update\s+status\s+to\s+["']?(.*?)["']?$
StatusAt(mod, p) ==
    LET a == p + Len("update")
        b == Span(mod, a, Space)
        c == b + Len("status")
        d == Span(mod, c, Space)
        e == d + Len("to")
        f == Span(mod, e, Space)
    IN  IF /\ LitCI(mod, p, "update")
           /\ b > a
           /\ LitCI(mod, b, "status")
           /\ d > c
           /\ LitCI(mod, d, "to")
           /\ f > e
        THEN TailAt(mod, f)
        ELSE NoMatch

status_match(mod) ==
    LET p == Leftmost({q \in 1..Len(mod) : StatusAt(mod, q).ok})
    IN  IF p = 0 THEN NoMatch ELSE StatusAt(mod, p)

\* ["']?\s+to\s+["']?(.*?)["']?$ : what follows the lazy member group
FamilyRestAt(mod, j) ==
    LET k == IF j <= Len(mod) /\ Ch(mod, j) \in Quote THEN j + 1 ELSE j
        b == Span(mod, k, Space)
        c == b + Len("to")
        d == Span(mod, c, Space)
    IN  IF b > k /\ LitCI(mod, b, "to") /\ d > c THEN TailAt(mod, d) ELSE NoMatch

\* update\s+family\s+member\s+["']?(.*?)["']?\s+to\s+["']?(.*?)["']?$
FamilyAt(mod, p) ==
    LET a == p + Len("update")
        b == Span(mod, a, Space)
        c == b + Len("family")
        d == Span(mod, c, Space)
        e == d + Len("member")
        f == Span(mod, e, Space)
        g == IF f <= Len(mod) /\ Ch(mod, f) \in Quote THEN f + 1 ELSE f
        cand == {j \in g..LineEnd(mod, g) : FamilyRestAt(mod, j).ok}
    IN  IF /\ LitCI(mod, p, "update")
           /\ b > a
           /\ LitCI(mod, b, "family")
           /\ d > c
           /\ LitCI(mod, d, "member")
           /\ f > e
           /\ cand # {}
        THEN [ok |-> TRUE, member |-> SubSeq(mod, g, Min(cand) - 1),
              status |-> FamilyRestAt(mod, Min(cand)).text]
        ELSE NoMatch

family_update_match(mod) ==
    LET p == Leftmost({q \in 1..Len(mod) : FamilyAt(mod, q).ok})
    IN  IF p = 0 THEN NoMatch ELSE FamilyAt(mod, p)

\* add\s+(\w+)\s+["']?(.*?)["']?$
AddAt(mod, p) ==
    LET a == p + Len("add")
        b == Span(mod, a, Space)
        c == Span(mod, b, Word)
        d == Span(mod, c, Space)
    IN  IF LitCI(mod, p, "add") /\ b > a /\ c > b /\ d > c /\ TailAt(mod, d).ok
        THEN [ok |-> TRUE, category |-> SubSeq(mod, b, c - 1), value |-> TailAt(mod, d).text]
        ELSE NoMatch

add_match(mod) ==
    LET p == Leftmost({q \in 1..Len(mod) : AddAt(mod, q).ok})
    IN  IF p = 0 THEN NoMatch ELSE AddAt(mod, p)

\* set\s+([\w\.]+)\s+to\s+["']?(.*?)["']?$
KvAt(mod, p) ==
    LET a == p + Len("set")
        b == Span(mod, a, Space)
        c == Span(mod, b, WordDot)
        d == Span(mod, c, Space)
        e == d + Len("to")
        f == Span(mod, e, Space)
    IN  IF /\ LitCI(mod, p, "set")
           /\ b > a
           /\ c > b
           /\ d > c
           /\ LitCI(mod, d, "to")
           /\ f > e
           /\ TailAt(mod, f).ok
        THEN [ok |-> TRUE, key_path |-> SubSeq(mod, b, c - 1), value |-> TailAt(mod, f).text]
        ELSE NoMatch

kv_match(mod) ==
    LET p == Leftmost({q \in 1..Len(mod) : KvAt(mod, q).ok})
    IN  IF p = 0 THEN NoMatch ELSE KvAt(mod, p)

\* re.search(r"Day (\d+)", status): the day number, -1 when there is no match
DayAt(status, p) == Lit(status, p, "Day ") /\ Span(status, p + 4, Digit) > p + 4

day_match(status) ==
    LET p == Leftmost({q \in 1..Len(status) : DayAt(status, q)})
    IN  IF p = 0 THEN -1 ELSE int(SubSeq(status, p + 4, Span(status, p + 4, Digit) - 1))

(***************************************************************************)
(* update_game_state: the handler of each pattern, the cascade that picks  *)
(* one handler per modification, and the end-of-turn day bookkeeping.      *)
(***************************************************************************)

\* state.get("resources", {})
resources_of(state) == IF Has(state, "resources") THEN Get(state, "resources") ELSE EmptyDict

\* a decrease that does not floor at zero
apply_decrease_unfloored(state, m) ==
    LET resources == resources_of(state)
    IN  IF InRaises(resources) THEN Raised(state)
        ELSE IF ~In(m.resource, resources) THEN Done(state)
        ELSE IF resources.t # "dict" THEN Raised(state)
        ELSE IF ~IsNumber(Get(resources, m.resource)) THEN Raised(state)
        ELSE Done(Put(state, "resources",
                      Put(resources, m.resource,
                          AddInt(Get(resources, m.resource), 0 - int(m.amount)))))

\* a decrease that creates a missing resource at zero
apply_decrease_creating(state, m) ==
    LET resources == resources_of(state)
    IN  IF InRaises(resources) THEN Raised(state)
        ELSE IF resources.t # "dict" THEN Raised(state)
        ELSE IF ~In(m.resource, resources)
        THEN Done(Put(state, "resources", Put(resources, m.resource, IntV(0))))
        ELSE IF ~IsNumber(Get(resources, m.resource)) THEN Raised(state)
        ELSE Done(Put(state, "resources",
                      Put(resources, m.resource,
                          max0(AddInt(Get(resources, m.resource), 0 - int(m.amount))))))

\* the branch taken on decrease_match
apply_decrease(state, m) ==
    LET resources == resources_of(state)
    IN  IF InRaises(resources) THEN Raised(state)
        ELSE IF ~In(m.resource, resources) THEN Done(state)
        ELSE IF resources.t # "dict" THEN Raised(state)
        ELSE IF ~IsNumber(Get(resources, m.resource)) THEN Raised(state)
        ELSE Done(Put(state, "resources",
                      Put(resources, m.resource,
                          max0(AddInt(Get(resources, m.resource), 0 - int(m.amount))))))

\* the branch taken on increase_match
apply_increase(state, m) ==
    LET resources == resources_of(state)
    IN  IF InRaises(resources) THEN Raised(state)
        ELSE IF In(m.resource, resources)
        THEN IF resources.t # "dict" THEN Raised(state)
             ELSE IF ~IsNumber(Get(resources, m.resource)) THEN Raised(state)
             ELSE Done(Put(state, "resources",
                           Put(resources, m.resource,
                               AddInt(Get(resources, m.resource), int(m.amount)))))
        ELSE IF ~Has(state, "resources") THEN Raised(state)
             ELSE IF resources.t # "dict" THEN Raised(state)
             ELSE Done(Put(state, "resources", Put(resources, m.resource, IntV(int(m.amount)))))

\* a set that does not create the resources mapping
apply_set_existing(state, m) ==
    LET resources == resources_of(state)
    IN  IF ~Has(state, "resources") THEN Done(state)
        ELSE IF resources.t # "dict" THEN Raised(state)
        ELSE Done(Put(state, "resources", Put(resources, m.resource, IntV(int(m.amount)))))

\* the branch taken on set_match
apply_set(state, m) ==
    LET resources == resources_of(state)
    IN  IF resources.t # "dict" THEN Raised(state)
        ELSE Done(Put(state, "resources", Put(resources, m.resource, IntV(int(m.amount)))))

\* the branch taken on status_match
apply_status(state, m) == Done(Put(state, "status", StrV(strip(m.text))))

\* the branch taken on family_update_match
apply_family(state, m) ==
    LET family_status == IF Has(state, "family_status") THEN Get(state, "family_status") ELSE EmptyDict
    IN  IF family_status.t # "dict" THEN Raised(state)
        ELSE Done(Put(state, "family_status",
                      Put(family_status, strip(m.member), StrV(strip(m.status)))))

\* an add that replaces a value that is not a list by a one-element list
apply_add_replacing(state, m) ==
    LET current == IF Has(state, m.category) THEN Get(state, m.category) ELSE ListV(<<>>)
    IN  IF current.t = "list"
        THEN Done(Put(state, m.category, ListV(Append(current.l, StrV(strip(m.value))))))
        ELSE Done(Put(state, m.category, ListV(<<StrV(strip(m.value))>>)))

\* the branch taken on add_match
apply_add(state, m) ==
    LET current == IF Has(state, m.category) THEN Get(state, m.category) ELSE ListV(<<>>)
    IN  IF current.t = "list"
        THEN Done(Put(state, m.category, ListV(Append(current.l, StrV(strip(m.value))))))
        ELSE Done(state)

\* the value stored by the generic pattern: int, float or the raw text
coerce(value) ==
    IF isdigit(value) THEN IntV(int(value))
    ELSE IF isdigit(replace_dot_once(value)) /\ count_dot(value) <= 1 THEN float(value)
    ELSE StrV(value)

\* walk keys[:-1] from current, creating missing dicts, and assign the leaf;
\* a step through a value that is not a dict raises before anything is changed
RECURSIVE set_path(_, _, _)
set_path(current, keys, leaf) ==
    IF current.t # "dict" THEN [ok |-> FALSE]
    ELSE IF Len(keys) = 1 THEN [ok |-> TRUE, v |-> Put(current, keys[1], leaf)]
    ELSE LET child == IF Has(current, keys[1]) THEN Get(current, keys[1]) ELSE EmptyDict
             r == set_path(child, Tail(keys), leaf)
         IN  IF r.ok THEN [ok |-> TRUE, v |-> Put(current, keys[1], r.v)] ELSE [ok |-> FALSE]

\* the branch taken on kv_match
apply_kv(state, m) ==
    LET r == set_path(state, split_dot(m.key_path), coerce(m.value))
    IN  IF r.ok THEN Done(r.v) ELSE Raised(state)

\* a cascade that tries the generic key-path pattern before the resource-set one
pattern_of_generic_first(mod) ==
    IF decrease_match(mod).ok THEN "decrease"
    ELSE IF increase_match(mod).ok THEN "increase"
    ELSE IF kv_match(mod).ok THEN "kv"
    ELSE IF set_match(mod).ok THEN "set"
    ELSE IF status_match(mod).ok THEN "status"
    ELSE IF family_update_match(mod).ok THEN "family"
    ELSE IF add_match(mod).ok THEN "add"
    ELSE "none"

\* which branch of the loop body handles mod: the first pattern that matches
pattern_of(mod) ==
    IF decrease_match(mod).ok THEN "decrease"
    ELSE IF increase_match(mod).ok THEN "increase"
    ELSE IF set_match(mod).ok THEN "set"
    ELSE IF status_match(mod).ok THEN "status"
    ELSE IF family_update_match(mod).ok THEN "family"
    ELSE IF add_match(mod).ok THEN "add"
    ELSE IF kv_match(mod).ok THEN "kv"
    ELSE "none"

\* a loop body that records a modification no pattern matched
apply_branch_noting(state, mod, pattern) ==
    CASE pattern = "decrease" -> apply_decrease(state, decrease_match(mod))
      [] pattern = "increase" -> apply_increase(state, increase_match(mod))
      [] pattern = "set"      -> apply_set(state, set_match(mod))
      [] pattern = "status"   -> apply_status(state, status_match(mod))
      [] pattern = "family"   -> apply_family(state, family_update_match(mod))
      [] pattern = "add"      -> apply_add(state, add_match(mod))
      [] pattern = "kv"       -> apply_kv(state, kv_match(mod))
      [] OTHER                -> Done(Put(state, "unmatched", StrV(mod)))

\* the branch of the loop body that pattern names, on its match
apply_branch(state, mod, pattern) ==
    CASE pattern = "decrease" -> apply_decrease(state, decrease_match(mod))
      [] pattern = "increase" -> apply_increase(state, increase_match(mod))
      [] pattern = "set"      -> apply_set(state, set_match(mod))
      [] pattern = "status"   -> apply_status(state, status_match(mod))
      [] pattern = "family"   -> apply_family(state, family_update_match(mod))
      [] pattern = "add"      -> apply_add(state, add_match(mod))
      [] pattern = "kv"       -> apply_kv(state, kv_match(mod))
      [] OTHER                -> Done(state)

\* one iteration of the loop over the modifications
apply_mod(state, mod) == apply_branch(state, mod, pattern_of(mod))

\* the except clause of the loop: the modification that raised is reported
\* with st.error and the loop goes on from the state it left
reported(errors, r) == [state |-> r.state, errors |-> errors + (IF r.raised THEN 1 ELSE 0)]

\* a loop that stops at the first modification that raises
RECURSIVE apply_from_aborting(_, _)
apply_from_aborting(acc, modifications) ==
    IF modifications = <<>> THEN acc
    ELSE IF apply_mod(acc.state, Head(modifications)).raised
    THEN [state |-> acc.state, errors |-> acc.errors + 1]
    ELSE apply_from_aborting([state |-> apply_mod(acc.state, Head(modifications)).state,
                              errors |-> acc.errors],
                             Tail(modifications))

\* the loop from acc (the state and the errors reported so far): every
\* modification in list order
RECURSIVE apply_from(_, _)
apply_from(acc, modifications) ==
    IF modifications = <<>> THEN acc
    ELSE apply_from(reported(acc.errors, apply_mod(acc.state, Head(modifications))),
                    Tail(modifications))

apply_all(state, modifications) == apply_from([state |-> state, errors |-> 0], modifications)

\* re.search(r"Day (\d+)", state.get("status", "")) raises TypeError when the
\* status is not a string; the exception leaves update_game_state
day_search_raises(state) == Has(state, "status") /\ Get(state, "status").t # "str"

\* state.get("status", "")
status_text(state) == IF Has(state, "status") THEN Get(state, "status").s ELSE ""

\* a bump of every status that names a day, whichever day it names
bump_status_any_day(state, current_day) ==
    IF day_match(status_text(state)) >= 0
    THEN Put(state, "status", StrV("Day " \o str(current_day + 1)))
    ELSE state

\* a bump that writes the day that ends instead of the day that starts
bump_status_same_day(state, current_day) ==
    IF day_match(status_text(state)) = current_day
    THEN Put(state, "status", StrV("Day " \o str(current_day)))
    ELSE state

\* "Increment day if not already done"; day_match is -1, which is no day,
\* when the status names none
bump_status(state, current_day) ==
    IF day_match(status_text(state)) = current_day
    THEN Put(state, "status", StrV("Day " \o str(current_day + 1)))
    ELSE state

\* the code after the loop: r is what the loop left, kept as applied;
\* escaped tells that an exception left update_game_state
advance_day(r, current_day) ==
    IF day_search_raises(r.state)
    THEN [state |-> r.state, current_day |-> current_day, errors |-> r.errors,
          escaped |-> TRUE, applied |-> r.state]
    ELSE [state |-> bump_status(r.state, current_day), current_day |-> current_day + 1,
          errors |-> r.errors, escaped |-> FALSE, applied |-> r.state]

\* update_game_state(modifications) on st.session_state['initial_state'] and
\* st.session_state['current_day']
update_game_state(state, current_day, modifications) ==
    advance_day(apply_all(state, modifications), current_day)

(***************************************************************************)
(* parse_mistral_response (front end) and the same code in                 *)
(* process_user_decision (back end): narrative and modification list.      *)
(***************************************************************************)

\* leftmost occurrence of a literal at or after from, 0 when there is none
Find(s, lit, from) == Leftmost({p \in from..Len(s) : Lit(s, p, lit)})

\* a search that gives up when JSON_MODIFICATIONS: comes first
next_situation_in_order(response) ==
    LET p == Find(response, "NEXT_SITUATION_DESCRIPTION:", 1)
        q == Find(response, "JSON_MODIFICATIONS:", 1)
        a == Span(response, p + Len("NEXT_SITUATION_DESCRIPTION:"), Space)
        e == Min({j \in a..(Len(response) + 1) :
                    Lit(response, j, "\nJSON_MODIFICATIONS:") \/ AtEnd(response, j)})
    IN  IF p = 0 \/ (q > 0 /\ q < p) THEN "" ELSE strip(SubSeq(response, a, e - 1))

\* NEXT_SITUATION_DESCRIPTION:\s*(.*?)(?=\nJSON_MODIFICATIONS:|$) with re.DOTALL
next_situation_of(response) ==
    LET p == Find(response, "NEXT_SITUATION_DESCRIPTION:", 1)
        a == Span(response, p + Len("NEXT_SITUATION_DESCRIPTION:"), Space)
        e == Min({j \in a..(Len(response) + 1) :
                    Lit(response, j, "\nJSON_MODIFICATIONS:") \/ AtEnd(response, j)})
    IN  IF p = 0 THEN "" ELSE strip(SubSeq(response, a, e - 1))

\* JSON_MODIFICATIONS:\s*(.*?)(?=$) with re.DOTALL
json_mods_text_of(response) ==
    LET p == Find(response, "JSON_MODIFICATIONS:", 1)
        a == Span(response, p + Len("JSON_MODIFICATIONS:"), Space)
        e == Min({j \in a..(Len(response) + 1) : AtEnd(response, j)})
    IN  IF p = 0 THEN "" ELSE strip(SubSeq(response, a, e - 1))

\* re.findall(r"- (.*?)(?=\n- |\n\n|$)", text, re.DOTALL), scanning from from
RECURSIVE findall_items(_, _)
findall_items(text, from) ==
    LET p == Find(text, "- ", from)
        a == p + 2
        e == Min({j \in a..(Len(text) + 1) :
                    Lit(text, j, "\n- ") \/ Lit(text, j, "\n\n") \/ AtEnd(text, j)})
    IN  IF p = 0 THEN <<>> ELSE <<SubSeq(text, a, e - 1)>> \o findall_items(text, e)

\* a list comprehension without its filter
RECURSIVE strip_each(_)
strip_each(items) ==
    IF items = <<>> THEN <<>> ELSE <<strip(Head(items))>> \o strip_each(Tail(items))

\* [mod.strip() for mod in modifications if mod.strip()]
RECURSIVE strip_nonempty(_)
strip_nonempty(items) ==
    IF items = <<>> THEN <<>>
    ELSE IF strip(Head(items)) = "" THEN strip_nonempty(Tail(items))
    ELSE <<strip(Head(items))>> \o strip_nonempty(Tail(items))

parse_mistral_response(response) ==
    [next_situation |-> next_situation_of(response),
     json_modifications |->
        IF json_mods_text_of(response) = "" THEN <<>>
        ELSE strip_nonempty(findall_items(json_mods_text_of(response), 1))]

(***************************************************************************)
(* The completion API as seen by its callers.  A completion is what the    *)
(* remote endpoint does with one request: it fails (transport error,       *)
(* non-2xx status, malformed body), it returns a body without the fields   *)
(* of a completion, or it returns a text, possibly empty.                  *)
(***************************************************************************)
\* requests.post raises
Failure == [ok |-> FALSE, why |-> "transport"]

\* the endpoint answers with a status other than 2xx
StatusFailure == [ok |-> FALSE, why |-> "status"]

\* response.json() raises, or "choices" is an empty list
BodyFailure == [ok |-> FALSE, why |-> "body"]

\* a JSON object without "choices", "message" or "content"
Unfilled == [ok |-> TRUE, filled |-> FALSE]

Completion(text) == [ok |-> TRUE, filled |-> TRUE, text |-> text]

\* result.get("choices", [{}])[0].get("message", {}).get("content", "")
content_of(c) == IF c.filled THEN c.text ELSE ""

None == [t |-> "none"]

\* frontend/crisis_simulation.py call_mistral_api: "" on every failure
call_mistral_api(c) == IF c.ok THEN content_of(c) ELSE ""

\* backend/app/services.py get_mistral_response: None on every failure
get_mistral_response(c) == IF c.ok THEN StrV(content_of(c)) ELSE None

\* Python truth value of None or a str
Truthy(v) == v.t = "str" /\ v.s # ""

\* the uniform envelope of backend/app/routes.py
Envelope(status, message, data) == [status |-> status, message |-> message, data |-> data]

\* services.process_user_decision: None, or the parsed (narrative, modifications)
process_user_decision(c) ==
    IF ~Truthy(get_mistral_response(c)) THEN None
    ELSE [t |-> "tuple", v |-> parse_mistral_response(get_mistral_response(c).s)]

\* routes.process_decision (POST /crisis/decision)
process_decision(c) ==
    LET result == process_user_decision(c)
    IN  IF result.t = "tuple"
        THEN Envelope(200, "Decision processed successfully", result.v)
        ELSE Envelope(500, "Failed to process decision", None)

\* services.process_user_decision raises at user_action[:50] when the action
\* of the request body is neither a str nor a list
decision_raises(user_action) == user_action.t \notin {"str", "list"}

\* routes.process_decision on a request body: its except branch answers when
\* the service raises
process_decision_request(user_action, c) ==
    IF decision_raises(user_action)
    THEN Envelope(500, "An error occurred", None)
    ELSE process_decision(c)

\* routes.chat (POST /chat/)
chat(c) ==
    IF Truthy(get_mistral_response(c))
    THEN Envelope(200, "Chat response generated successfully", [response |-> get_mistral_response(c).s])
    ELSE Envelope(500, "Failed to get response from Mistral API", None)

\* services.generate_crisis_scenario and routes.create_crisis_scenario
create_crisis_scenario(c) ==
    IF Truthy(get_mistral_response(c))
    THEN Envelope(200, "Crisis scenario generated successfully", [scenario |-> get_mistral_response(c).s])
    ELSE Envelope(500, "Failed to generate crisis scenario", None)

\* services.generate_crisis_advice and routes.get_crisis_advice
get_crisis_advice(c) ==
    IF Truthy(get_mistral_response(c))
    THEN Envelope(200, "Advice generated successfully", [advice |-> get_mistral_response(c).s])
    ELSE Envelope(500, "Failed to generate advice", None)

\* frontend/middleware.py call_crisis_*: the envelope, None when the request
\* to the back end itself fails
call_backend(envelope, backend_up) == IF backend_up THEN envelope ELSE None

\* "response and response.get('status') == 200"
Status200(response) == response # None /\ response.status = 200

(***************************************************************************)
(* Session state (st.session_state)                                        *)
(***************************************************************************)
VARIABLES
    frontend,            \* which script runs: "standalone" (crisis_simulation.py)
                         \* or "updated" (crisis_simulation_updated.py)
    app_state,           \* st.session_state['app_state']
    initial_state,       \* st.session_state['initial_state'], the state tree
    simulation_log,      \* st.session_state['simulation_log']
    current_day,         \* st.session_state['current_day']
    crisis_description,  \* st.session_state['crisis_description']
    latest_update,       \* st.session_state['latest_update']
    advice,              \* st.session_state['advice'], NoAdvice while the key is absent
    st_errors,           \* the errors the last script run displayed with st.error
    last_form,           \* history of the last submitted form: the name and the
                         \* location that were typed
    last_turn,           \* history of the last processed turn: the state and the day it
                         \* started from, its modifications, the state as the loop over
                         \* them left it and the number of modifications that raised
    last_call,           \* history of the last request for a completion: its kind,
                         \* what the completion API did with it and, for a decision,
                         \* the recent events it carried
    exchange             \* the request the back end handles, and the envelope it
                         \* answered once the handler returned

vars == <<frontend, app_state, initial_state, simulation_log, current_day,
          crisis_description, latest_update, advice, st_errors, last_form, last_turn,
          last_call, exchange>>

NoAdvice == [set |-> FALSE]

NoTurn == [processed |-> FALSE]

NoForm == [submitted |-> FALSE]

Submitted(name, location) == [submitted |-> TRUE, name |-> name, location |-> location]

NoCall == [made |-> FALSE]

NoExchange == [endpoint |-> "none", done |-> FALSE]

Called(kind, reply, events) ==
    [made |-> TRUE, kind |-> kind, reply |-> reply, recent_events |-> events]

\* the request of the updated front end does not reach the back end
Unreached == [ok |-> FALSE, why |-> "backend"]

\* what front end fe learns of completion c: nothing of it when its back end
\* is down
Reply(fe, c, backend_up) == IF fe = "updated" /\ ~backend_up THEN Unreached ELSE c

\* initialize_session_state on a session without keys
Fresh ==
    /\ app_state = "collecting_info"
    /\ initial_state = EmptyDict
    /\ simulation_log = <<>>
    /\ current_day = 0
    /\ crisis_description = ""
    /\ latest_update = ""
    /\ advice = NoAdvice

Frontends == {"standalone", "updated"}

Init ==
    /\ frontend \in Frontends
    /\ Fresh
    /\ st_errors = {}
    /\ last_form = NoForm
    /\ last_turn = NoTurn
    /\ last_call = NoCall
    /\ exchange = NoExchange

\* a reset that only stores the first phase and keeps the other keys
reset_phase_only ==
    /\ app_state' = "collecting_info"
    /\ UNCHANGED <<initial_state, simulation_log, current_day, crisis_description,
                   latest_update, advice>>

\* a script run after every key was deleted: initialize_session_state again
fresh_session ==
    /\ app_state' = "collecting_info"
    /\ initial_state' = EmptyDict
    /\ simulation_log' = <<>>
    /\ current_day' = 0
    /\ crisis_description' = ""
    /\ latest_update' = ""
    /\ advice' = NoAdvice

(***************************************************************************)
(* Inputs: what the user types and what the completion API answers         *)
(***************************************************************************)
\* most processed turns of one run that the model follows
MaxTurns == 11

\* most processed turns of one run in the directive specification
MaxModTurns == 2

\* most pieces of a completion text in the back-end specification
MaxPieces == 3

Names == {"", "Ana"}

Locations == {"", "Lyon"}

UserActions == {"", "wait"}

Scenario == "A flood reaches Lyon."

Narrative == "The water keeps rising."

ScenarioCompletions == {Failure, Completion(""), Completion(Scenario)}

AdviceCompletions == {Failure, Completion(""), Completion("Keep a radio.")}

RECURSIVE Dashed(_)
Dashed(mods) == IF mods = <<>> THEN "" ELSE "\n- " \o Head(mods) \o Dashed(Tail(mods))

\* a completion text that follows the output format of the prompt
WellFormed(narrative, mods) ==
    "NEXT_SITUATION_DESCRIPTION: " \o narrative \o "\nJSON_MODIFICATIONS:" \o Dashed(mods)

\* the answers to a decision prompt in the session specification
TurnCompletions ==
    {Failure, Completion(""),
     Completion(WellFormed(Narrative, <<>>)),
     Completion(WellFormed(Narrative, <<"decrease resources.food by 5">>)),
     Completion(WellFormed(Narrative, <<"decrease resources.medicine by 5">>)),
     Completion(WellFormed(Narrative, <<"set status to 5">>)),
     Completion(WellFormed(Narrative, <<"set resources.food to low">>)),
     Completion(WellFormed(Narrative, <<"set resources to 5">>)),
     Completion(WellFormed(Narrative, <<"set profile.name to X">>))}

\* the answers to a decision prompt in the directive specification: one
\* directive each, and one answer with two
ModDirectives ==
    {"decrease resources.water by 15", "decrease resources.food by 1",
     "Decrease Resources.Food BY 3 units", "decrease resources.fuel by 1",
     "decrease food by 1", "decrease resources.food by two",
     "increase resources.fuel by 2", "increase resources.food by 3",
     "set resources.food to 5", "set resources.food to 0.5", "set resources.food to .5",
     "set resources.food to -5", "set resources.fuel to 3", "set resources.water to 0",
     "set resources to 5", "set resources.food.level to 3",
     "update status to Day 3", "update family member John to injured",
     "add events flood", "add status x", "add x",
     "set status to 5", "set status.day to 3", "set status to Day 7", "set profile.name to X",
     "set a to", "increment status.day by 1", "remove resources.food", "nothing happens",
     "set a.b.c to 5", "set a.b.c to 5.5", "set a.b.c to hello",
     "add events fire", "add profile X", "add resources x",
     "update family member 'Mia' to \"safe\"", "update family member John to healed",
     "set family_status to 0",
     "update status to Evacuated", "update status to \"Day 1, sheltering\""}

\* completion texts that depart from the output format: no narrative marker,
\* no directive block, a block without a dash item, no marker at all
MalformedCompletions ==
    {Completion("JSON_MODIFICATIONS:\n- decrease resources.food by 1"),
     Completion("NEXT_SITUATION_DESCRIPTION: " \o Narrative),
     Completion(WellFormed(Narrative, <<>>) \o " no change"),
     Completion(Narrative)}

ModCompletions ==
    {Completion(WellFormed(Narrative, <<mod>>)) : mod \in ModDirectives}
    \cup {Completion(WellFormed(Narrative, <<"increase resources.food by 3",
                                             "decrease resources.water by 15">>)),
          Completion(WellFormed(Narrative, <<"nothing happens", "nothing happens">>))}

\* the answers to a decision prompt in the text specification: a failure,
\* directive lists with a directive that is dropped, and the texts that depart
\* from the format
TextCompletions ==
    {Failure,
     Completion(WellFormed(Narrative, <<"set status.day to 3",
                                        "decrease resources.food by 1">>)),
     Completion(WellFormed(Narrative, <<"decrease resources.fuel by 1",
                                        "increase resources.food by 3">>)),
     Completion(WellFormed(Narrative, <<"set resources.food.level to 3",
                                        "decrease resources.food by 15",
                                        "increase resources.food by 3">>)),
     Completion(WellFormed(Narrative, <<"nothing happens", "set resources.water to 0",
                                        "add events flood">>))}
    \cup MalformedCompletions

\* the pieces the texts of the parser specification are made of: the
\* narrative under its marker, the other marker on a line of its own and inside
\* a line, dash items with a directive, without the space, without a
\* directive, and after a blank line
ParsePieces ==
    {"\nNEXT_SITUATION_DESCRIPTION: calm", "\nJSON_MODIFICATIONS:", " JSON_MODIFICATIONS:",
     "\n- set a to 1", "\n-b", "\n- ", "\n\n- go"}

\* the texts of at most n pieces
RECURSIVE Texts(_)
Texts(n) ==
    IF n = 0 THEN {""}
    ELSE Texts(n - 1) \cup {text \o piece : text \in Texts(n - 1), piece \in ParsePieces}

\* the answers to a decision prompt in the parser specification
ParseCompletions == {Completion(text) : text \in Texts(MaxPieces)}

(***************************************************************************)
(* Rendering.  Every script run draws the page of the current phase; the   *)
(* page of in_simulation and of recap iterates resources.items() and       *)
(* family_status.items(), which raises when the value is not a dict.       *)
(***************************************************************************)
\* Python truth value of a value of the state tree
TruthyV(v) ==
    CASE v.t = "str"   -> v.s # ""
      [] v.t = "list"  -> v.l # <<>>
      [] v.t = "int"   -> v.i # 0
      [] v.t = "float" -> v.n # 0
      [] OTHER         -> DOMAIN v.m # {}

render_raises(state) ==
    \/ resources_of(state).t # "dict"
    \/ /\ Has(state, "family_status")
       /\ Get(state, "family_status").t # "dict"
       /\ TruthyV(Get(state, "family_status"))

\* the errors a fresh run of the script displays for the phase it renders
RenderErrors(phase, state) ==
    IF phase \in {"in_simulation", "recap"} /\ render_raises(state) THEN {"unexpected"} ELSE {}

(***************************************************************************)
(* render_input_form: the form is submitted                                *)
(***************************************************************************)
FormState(fe, name, location) ==
    IF fe = "standalone"
    THEN DictV([profile |-> DictV([name |-> StrV(name), age |-> IntV(30), location |-> StrV(location)]),
                family |-> StrV("2 adults"),
                vulnerabilities |-> StrV("asthma"),
                resources |-> DictV([food |-> IntV(10), water |-> IntV(10),
                                     medicine |-> IntV(5), morale |-> IntV(8)]),
                status |-> StrV("Day 1")])
    ELSE DictV([profile |-> StrV("Boss"),
                description |-> StrV("office"),
                status |-> StrV("Day 1")])

\* a form that only requires the name
form_filled_name_only(name, location) == name # ""

\* "if not (name and location)": both required fields are filled in
form_filled(name, location) == name # "" /\ location # ""

render_input_form ==
    /\ app_state = "collecting_info"
    /\ \E name \in Names, location \in Locations :
         /\ last_form' = Submitted(name, location)
         /\ IF ~form_filled(name, location)
            THEN /\ st_errors' = {"form"}
                 /\ UNCHANGED <<app_state, initial_state>>
            ELSE /\ initial_state' = FormState(frontend, name, location)
                 /\ app_state' = "generating_scenario"
                 /\ st_errors' = {}
    /\ UNCHANGED <<frontend, simulation_log, current_day, crisis_description,
                   latest_update, advice, last_turn, last_call, exchange>>

(***************************************************************************)
(* generate_crisis_scenario                                                *)
(***************************************************************************)
\* the scenario text the front end obtains, "" when it obtains none
scenario_description(c, backend_up) ==
    IF frontend = "standalone" THEN call_mistral_api(c)
    ELSE LET response == call_backend(create_crisis_scenario(c), backend_up)
         IN  IF Status200(response) THEN response.data.scenario ELSE ""

\* a generation that takes any answer, an empty one included, for a scenario
scenario_received_always(scenario) == TRUE

\* "if scenario_description:"
scenario_received(scenario) == scenario # ""

generate_crisis_scenario ==
    /\ app_state = "generating_scenario"
    /\ \E c \in ScenarioCompletions, backend_up \in BOOLEAN :
         LET scenario == scenario_description(c, backend_up)
         IN  /\ last_call' = Called("scenario", Reply(frontend, c, backend_up), <<>>)
             /\ IF scenario_received(scenario)
                THEN /\ crisis_description' = scenario
                     /\ latest_update' = scenario
                     /\ simulation_log' = <<scenario>>
                     /\ current_day' = 1
                     /\ app_state' = "in_simulation"
                     /\ st_errors' = RenderErrors("in_simulation", initial_state)
                ELSE /\ st_errors' = {"scenario"}
                     /\ UNCHANGED <<crisis_description, latest_update, simulation_log,
                                    current_day, app_state>>
    /\ UNCHANGED <<frontend, initial_state, advice, last_form, last_turn, exchange>>

(***************************************************************************)
(* run_simulation: a decision is submitted                                 *)
(***************************************************************************)
\* a decision that takes the whole text for the narrative when the parse
\* finds none
decision_whole_text(fe, c, backend_up) ==
    LET response == IF fe = "standalone" \/ backend_up THEN call_mistral_api(c) ELSE ""
    IN  IF response # ""
        THEN LET parsed == parse_mistral_response(response)
             IN  [ok |-> TRUE,
                  next_situation |-> IF parsed.next_situation = "" THEN response
                                     ELSE parsed.next_situation,
                  json_modifications |-> parsed.json_modifications]
        ELSE [ok |-> FALSE, next_situation |-> "", json_modifications |-> <<>>]

\* what front end fe obtains for a decision: ok tells that a completion
\* was received, the rest is its parse
decision(fe, c, backend_up) ==
    IF fe = "standalone"
    THEN LET response == call_mistral_api(c)
         IN  IF response # ""
             THEN LET parsed == parse_mistral_response(response)
                  IN  [ok |-> TRUE,
                       next_situation |-> parsed.next_situation,
                       json_modifications |-> parsed.json_modifications]
             ELSE [ok |-> FALSE, next_situation |-> "", json_modifications |-> <<>>]
    ELSE LET response == call_backend(process_decision(c), backend_up)
         IN  IF Status200(response)
             THEN [ok |-> TRUE,
                   next_situation |-> response.data.next_situation,
                   json_modifications |-> response.data.json_modifications]
             ELSE [ok |-> FALSE, next_situation |-> "", json_modifications |-> <<>>]

\* the decisions each front end can obtain when the completion API answers
\* with one of completions and the back end is up or down
Decisions(completions) ==
    {[frontend |-> fe, reply |-> Reply(fe, c, backend_up), d |-> decision(fe, c, backend_up)] :
        fe \in Frontends, c \in completions, backend_up \in BOOLEAN}

TurnDecisions == Decisions(TurnCompletions)

ModDecisions == Decisions(ModCompletions)

TextDecisions == Decisions(TextCompletions)

\* a lookup that takes an absent resource for an empty one
resource_or_zero(resources, key) == IF Has(resources, key) THEN Get(resources, key) ELSE IntV(0)

\* resources.get(key, 1)
resource_or_one(resources, key) == IF Has(resources, key) THEN Get(resources, key) ELSE IntV(1)

\* an end check whose day cap is one day later
end_check_day_late(state, day) ==
    LET resources == resources_of(state)
    IN  IF day > 11 THEN "recap"
        ELSE IF resources.t # "dict" THEN "raise"
        ELSE IF ~IsNumber(resource_or_one(resources, "food")) THEN "raise"
        ELSE IF LeqZero(resource_or_one(resources, "food")) THEN "recap"
        ELSE IF ~IsNumber(resource_or_one(resources, "water")) THEN "raise"
        ELSE IF LeqZero(resource_or_one(resources, "water")) THEN "recap"
        ELSE "continue"

\* "End conditions: day > 10 or any critical resource at 0", evaluated left to
\* right: "recap", "continue", or "raise" when a comparison or .get raises
end_check(state, day) ==
    LET resources == resources_of(state)
    IN  IF day > 10 THEN "recap"
        ELSE IF resources.t # "dict" THEN "raise"
        ELSE IF ~IsNumber(resource_or_one(resources, "food")) THEN "raise"
        ELSE IF LeqZero(resource_or_one(resources, "food")) THEN "recap"
        ELSE IF ~IsNumber(resource_or_one(resources, "water")) THEN "raise"
        ELSE IF LeqZero(resource_or_one(resources, "water")) THEN "recap"
        ELSE "continue"

\* number of turns of the current run that were processed: each appends two
\* entries to the log that the scenario opened
ProcessedTurns == IF simulation_log = <<>> THEN 0 ELSE (Len(simulation_log) - 1) \div 2

\* a window of the last four entries
recent_events_four(log) == IF Len(log) > 4 THEN SubSeq(log, Len(log) - 3, Len(log)) ELSE log

\* "log[-3:] if len(log) > 3 else log"
recent_events(log) == IF Len(log) > 3 THEN SubSeq(log, Len(log) - 2, Len(log)) ELSE log

\* a turn that logs its narrative before the action
append_turn_narrative_first(log, user_action, next_situation) ==
    log \o <<next_situation, "Your action: " \o user_action>>

\* the two appends to st.session_state['simulation_log']
append_turn(log, user_action, next_situation) ==
    log \o <<"Your action: " \o user_action, next_situation>>

\* the turn is processed: log, state, day counter and phase
\* how the turn ends once update_game_state returned r or raised
turn_end(r) == IF r.escaped THEN "raise" ELSE end_check(r.state, r.current_day)

process_turn(user_action, d) ==
    \E r \in {update_game_state(initial_state, current_day, d.json_modifications)} :
      \E end \in {turn_end(r)} :
        /\ simulation_log' = append_turn(simulation_log, user_action, d.next_situation)
        /\ latest_update' = d.next_situation
        /\ initial_state' = r.state
        /\ current_day' = r.current_day
        /\ app_state' = IF end = "recap" THEN "recap" ELSE "in_simulation"
        /\ st_errors' = IF end = "raise"
                        THEN {"unexpected"} \cup (IF r.errors > 0 THEN {"modification"} ELSE {})
                        ELSE RenderErrors(app_state', r.state)
        /\ last_turn' = [processed |-> TRUE, state |-> initial_state, day |-> current_day,
                         modifications |-> d.json_modifications,
                         applied |-> r.applied, errors |-> r.errors]

\* decisions holds, for each front end, what it can obtain for a decision
run_simulation(decisions, max_turns) ==
    /\ app_state = "in_simulation"
    /\ ~render_raises(initial_state)
    /\ ProcessedTurns < max_turns
    /\ \E user_action \in UserActions :
         IF user_action = ""
         THEN /\ st_errors' = {}
              /\ UNCHANGED <<app_state, initial_state, simulation_log, current_day,
                             latest_update, last_turn, last_call>>
         ELSE \E o \in decisions :
                /\ o.frontend = frontend
                /\ last_call' = Called("decision", o.reply, recent_events(simulation_log))
                /\ IF o.d.ok /\ o.d.next_situation # ""
                   THEN process_turn(user_action, o.d)
                   ELSE /\ st_errors' = {"decision"}
                        /\ UNCHANGED <<app_state, initial_state, simulation_log,
                                       current_day, latest_update, last_turn>>
    /\ UNCHANGED <<frontend, crisis_description, advice, last_form, exchange>>

(***************************************************************************)
(* generate_recap: advice, "Start a New Crisis", "Start From Scratch"      *)
(***************************************************************************)
\* the text stored under 'advice' on the first run of the recap page
advice_text(c, backend_up) ==
    IF frontend = "standalone" THEN call_mistral_api(c)
    ELSE LET response == call_backend(get_crisis_advice(c), backend_up)
         IN  IF Status200(response) THEN response.data.advice
             ELSE "Unable to generate personalized advice. Please try again."

generate_advice ==
    /\ app_state = "recap"
    /\ ~render_raises(initial_state)
    /\ advice = NoAdvice
    /\ \E c \in AdviceCompletions, backend_up \in BOOLEAN :
         /\ advice' = [set |-> TRUE, text |-> advice_text(c, backend_up)]
         /\ last_call' = Called("advice", Reply(frontend, c, backend_up), <<>>)
    /\ st_errors' = {}
    /\ UNCHANGED <<frontend, app_state, initial_state, simulation_log, current_day,
                   crisis_description, latest_update, last_form, last_turn, exchange>>

\* state.get(key, default)
get_or(state, key, default) == IF Has(state, key) THEN Get(state, key) ELSE default

\* a new crisis that keeps the whole state tree
kept_state_whole(state) == state

\* "Start a New Crisis" keeps the profile, the family and the vulnerabilities
kept_state(state) ==
    DictV([profile |-> get_or(state, "profile", EmptyDict),
           family |-> get_or(state, "family", StrV("")),
           vulnerabilities |-> get_or(state, "vulnerabilities", StrV(""))])

start_new_crisis ==
    /\ app_state = "recap"
    /\ ~render_raises(initial_state)
    /\ advice # NoAdvice
    /\ initial_state' = kept_state(initial_state)
    /\ app_state' = "generating_scenario"
    /\ simulation_log' = <<>>
    /\ current_day' = 0
    /\ crisis_description' = ""
    /\ latest_update' = ""
    /\ advice' = NoAdvice
    /\ st_errors' = {}
    /\ last_turn' = NoTurn
    /\ last_call' = NoCall
    /\ UNCHANGED <<frontend, last_form, exchange>>

start_from_scratch ==
    /\ app_state = "recap"
    /\ ~render_raises(initial_state)
    /\ advice # NoAdvice
    /\ fresh_session
    /\ st_errors' = {}
    /\ last_form' = NoForm
    /\ last_turn' = NoTurn
    /\ last_call' = NoCall
    /\ UNCHANGED <<frontend, exchange>>

(***************************************************************************)
(* main: "Reset Application", offered when the page of the phase raises    *)
(***************************************************************************)
reset_application ==
    /\ app_state \in {"in_simulation", "recap"}
    /\ render_raises(initial_state)
    /\ fresh_session
    /\ st_errors' = {}
    /\ last_form' = NoForm
    /\ last_turn' = NoTurn
    /\ last_call' = NoCall
    /\ UNCHANGED <<frontend, exchange>>

(***************************************************************************)
(* main: the page of a phase that is none of the four.  No statement of    *)
(* the two scripts stores such a phase; the page is what main draws when   *)
(* the session holds one all the same.                                     *)
(***************************************************************************)
\* the else branch of main's dispatch on st.session_state['app_state']
unknown_state ==
    app_state \notin {"collecting_info", "generating_scenario", "in_simulation", "recap"}

\* a script run in that phase: st.error and the button, not clicked
render_unknown ==
    /\ unknown_state
    /\ st_errors' = {"unknown state"}
    /\ UNCHANGED <<frontend, app_state, initial_state, simulation_log, current_day,
                   crisis_description, latest_update, advice, last_form, last_turn,
                   last_call, exchange>>

\* "Reset Application" is clicked: every key is deleted and the script runs
\* again
reset_unknown ==
    /\ unknown_state
    /\ fresh_session
    /\ st_errors' = {}
    /\ last_form' = NoForm
    /\ last_turn' = NoTurn
    /\ last_call' = NoCall
    /\ UNCHANGED <<frontend, exchange>>

(***************************************************************************)
(* The back end: one request to one of its four POST endpoints, answered   *)
(* by its handler.  The handlers keep no state between requests.           *)
(***************************************************************************)
session == <<frontend, app_state, initial_state, simulation_log, current_day,
             crisis_description, latest_update, advice, st_errors, last_form, last_turn,
             last_call>>

\* a request on its way to endpoint; c is what the completion API does with
\* the request the service makes for it
Request(endpoint, user_action, c) ==
    [endpoint |-> endpoint, user_action |-> user_action, reply |-> c, done |-> FALSE]

Answered(request, envelope) ==
    [endpoint |-> request.endpoint, user_action |-> request.user_action,
     reply |-> request.reply, done |-> TRUE, envelope |-> envelope]

\* everything the completion API can do with one request
ApiCompletions ==
    {Failure, StatusFailure, BodyFailure, Unfilled, Completion(""), Completion("Keep a radio.")}

\* the requests of the back-end specification; only /crisis/decision reads a
\* user action
Requests ==
    {Request(endpoint, StrV(""), c) :
        endpoint \in {"chat", "scenario", "advice"}, c \in ApiCompletions}
    \cup {Request("decision", user_action, c) :
            user_action \in {StrV("wait"), IntV(5)}, c \in ApiCompletions \cup ParseCompletions}

post_chat ==
    /\ exchange.endpoint = "chat"
    /\ ~exchange.done
    /\ exchange' = Answered(exchange, chat(exchange.reply))
    /\ UNCHANGED session

post_crisis_scenario ==
    /\ exchange.endpoint = "scenario"
    /\ ~exchange.done
    /\ exchange' = Answered(exchange, create_crisis_scenario(exchange.reply))
    /\ UNCHANGED session

post_crisis_decision ==
    /\ exchange.endpoint = "decision"
    /\ ~exchange.done
    /\ exchange' = Answered(exchange,
                            process_decision_request(exchange.user_action, exchange.reply))
    /\ UNCHANGED session

post_crisis_advice ==
    /\ exchange.endpoint = "advice"
    /\ ~exchange.done
    /\ exchange' = Answered(exchange, get_crisis_advice(exchange.reply))
    /\ UNCHANGED session

(***************************************************************************)
(* Specifications                                                          *)
(***************************************************************************)
Next ==
    \/ render_input_form
    \/ generate_crisis_scenario
    \/ run_simulation(TurnDecisions, MaxTurns)
    \/ generate_advice
    \/ start_new_crisis
    \/ start_from_scratch
    \/ reset_application

Spec == Init /\ [][Next]_vars

\* The directive specification: a simulation just entered, from the state the
\* form seeded or the state "Start a New Crisis" kept, and decisions whose
\* completions carry the directives of ModDirectives.
ModSeeds(fe) == {FormState(fe, "Ana", "Lyon"), kept_state(FormState(fe, "Ana", "Lyon"))}

ModInit ==
    /\ frontend \in Frontends
    /\ initial_state \in ModSeeds(frontend)
    /\ app_state = "in_simulation"
    /\ simulation_log = <<Scenario>>
    /\ current_day = 1
    /\ crisis_description = Scenario
    /\ latest_update = Scenario
    /\ advice = NoAdvice
    /\ st_errors = {}
    /\ last_form = Submitted("Ana", "Lyon")
    /\ last_turn = NoTurn
    /\ last_call = Called("scenario", Completion(Scenario), <<>>)
    /\ exchange = NoExchange

ModNext == run_simulation(ModDecisions, MaxModTurns)

SpecMods == ModInit /\ [][ModNext]_vars

\* The text specification: a simulation just entered, and decisions answered
\* with the whole texts of TextCompletions.
TextNext == run_simulation(TextDecisions, MaxModTurns)

SpecTexts == ModInit /\ [][TextNext]_vars

\* The back-end specification: one request, drawn from Requests, and the
\* handler of its endpoint.  The decisions carry every text of at most
\* MaxPieces pieces, which the service parses.
ApiInit ==
    /\ frontend = "updated"
    /\ Fresh
    /\ st_errors = {}
    /\ last_form = NoForm
    /\ last_turn = NoTurn
    /\ last_call = NoCall
    /\ exchange \in Requests

ApiNext ==
    \/ post_chat
    \/ post_crisis_scenario
    \/ post_crisis_decision
    \/ post_crisis_advice

SpecApi == ApiInit /\ [][ApiNext]_vars

\* The phase specification: a session whose stored phase is none of the four,
\* with any of the states, logs and day counters a run can have left in its
\* other keys, and the page main draws for it.
PhaseInit ==
    /\ frontend \in Frontends
    /\ app_state \in {"", "paused"}
    /\ initial_state \in {EmptyDict} \cup ModSeeds(frontend)
    /\ simulation_log \in {<<>>, <<Scenario>>, <<Scenario, "Your action: wait", Narrative>>}
    /\ current_day \in 0 .. MaxModTurns
    /\ crisis_description \in {"", Scenario}
    /\ latest_update \in {"", Scenario, Narrative}
    /\ advice \in {NoAdvice, [set |-> TRUE, text |-> "Keep a radio."]}
    /\ st_errors = {}
    /\ last_form = NoForm
    /\ last_turn = NoTurn
    /\ last_call = NoCall
    /\ exchange = NoExchange

PhaseNext ==
    \/ render_unknown
    \/ reset_unknown

SpecPhases == PhaseInit /\ [][PhaseNext]_vars

(***************************************************************************)
(* Properties.  The session properties are stated on Spec, the properties  *)
(* of single directives on SpecMods, through the history of the last       *)
(* processed turn.                                                         *)
(***************************************************************************)
\* the turns of the current run are under way or over
InRun == app_state \in {"in_simulation", "recap"}

\* every processed turn of the current run advanced the day counter
EveryTurnAdvanced == current_day = ProcessedTurns + 1

\* resources.<key> of state when it is a non-negative int, -1 otherwise
NatResource(state, key) ==
    IF /\ resources_of(state).t = "dict"
       /\ Has(resources_of(state), key)
       /\ Get(resources_of(state), key).t = "int"
       /\ Get(resources_of(state), key).i >= 0
    THEN Get(resources_of(state), key).i
    ELSE -1

\* state has no resources mapping, or a mapping without key
Absent(state, key) ==
    \/ ~Has(state, "resources")
    \/ resources_of(state).t = "dict" /\ ~Has(resources_of(state), key)

\* resources.<key> is a number <= 0; an absent key is not exhausted
Exhausted(state, key) ==
    /\ resources_of(state).t = "dict"
    /\ Has(resources_of(state), key)
    /\ IsNumber(Get(resources_of(state), key))
    /\ LeqZero(Get(resources_of(state), key))

Depleted(state) == Exhausted(state, "food") \/ Exhausted(state, "water")

\* the top-level keys on which two state trees differ
ChangedKeys(a, b) ==
    {k \in (DOMAIN a.m) \cup (DOMAIN b.m) :
        ~(k \in DOMAIN a.m /\ k \in DOMAIN b.m /\ a.m[k] = b.m[k])}

\* the last processed turn carried exactly the modification mod
LastTurnApplied(mod) == last_turn.processed /\ last_turn.modifications = <<mod>>

DecreaseCases ==
    {[mod |-> "decrease resources.water by 15", X |-> "water", N |-> 15],
     [mod |-> "decrease resources.food by 1", X |-> "food", N |-> 1],
     [mod |-> "decrease resources.fuel by 1", X |-> "fuel", N |-> 1]}

IncreaseCases ==
    {[mod |-> "increase resources.fuel by 2", X |-> "fuel", N |-> 2],
     [mod |-> "increase resources.food by 3", X |-> "food", N |-> 3]}

SetCases ==
    {[mod |-> "set resources.food to 5", X |-> "food", N |-> 5],
     [mod |-> "set resources.fuel to 3", X |-> "fuel", N |-> 3],
     [mod |-> "set resources.water to 0", X |-> "water", N |-> 0]}

\* C1: every processed turn increases current_day by exactly 1, whatever
\* directives the turn carries, directives that change `status` included.
C1_DayAdvancesEveryTurn == last_turn.processed => current_day = last_turn.day + 1

C3_RecapIffEndCondition ==
    /\ app_state = "recap" => last_turn.processed
    /\ last_turn.processed
         => (app_state = "recap" <=> (current_day > 10 \/ Depleted(initial_state)))

\* C4: where resources.X is an int v >= 0, `decrease resources.X by N` leaves
\* resources.X = max(0, v - N): 0, never negative, when N > v.
C4_DecreaseFloorsAtZero ==
    \A c \in DecreaseCases :
        (LastTurnApplied(c.mod) /\ NatResource(last_turn.state, c.X) >= 0)
            => NatResource(initial_state, c.X) =
                 (IF NatResource(last_turn.state, c.X) > c.N
                  THEN NatResource(last_turn.state, c.X) - c.N ELSE 0)

C4_DecreaseFloorsAtZero_Witness ==
    /\ LastTurnApplied("decrease resources.water by 15")
    /\ NatResource(last_turn.state, "water") = 10
    /\ NatResource(initial_state, "water") = 0

\* C5: in every reachable state of a session every entry of `resources` is a
\* non-negative integer.
C5_ResourcesAreNaturals ==
    resources_of(initial_state).t = "dict"
        => \A k \in DOMAIN resources_of(initial_state).m : NatResource(initial_state, k) >= 0

\* C6: a turn whose directives match none of the seven patterns leaves the
\* state tree as it was (same keys, same values) and reports no error, whether
\* the directive comes once or twice.
C6_UnmatchedDirectiveIsNoOp ==
    (/\ last_turn.processed
     /\ last_turn.modifications # <<>>
     /\ \A i \in DOMAIN last_turn.modifications :
            pattern_of(last_turn.modifications[i]) = "none")
        => (last_turn.applied = last_turn.state /\ last_turn.errors = 0)

C6_UnmatchedDirectiveIsNoOp_Witness ==
    /\ last_turn.processed
    /\ last_turn.modifications = <<"nothing happens", "nothing happens">>
    /\ last_turn.applied = last_turn.state

\* the handler of the first pattern, in the fixed order, that matches mod
FirstMatchOnly(state, mod) ==
    IF decrease_match(mod).ok THEN apply_decrease(state, decrease_match(mod))
    ELSE IF increase_match(mod).ok THEN apply_increase(state, increase_match(mod))
    ELSE IF set_match(mod).ok THEN apply_set(state, set_match(mod))
    ELSE IF status_match(mod).ok THEN apply_status(state, status_match(mod))
    ELSE IF family_update_match(mod).ok THEN apply_family(state, family_update_match(mod))
    ELSE IF add_match(mod).ok THEN apply_add(state, add_match(mod))
    ELSE IF kv_match(mod).ok THEN apply_kv(state, kv_match(mod))
    ELSE Done(state)

\* what one directive did, compared with the handler of its first pattern
ConsumedByFirstMatch(first) ==
    /\ last_turn.applied = first.state
    /\ last_turn.errors = (IF first.raised THEN 1 ELSE 0)
    /\ Cardinality(ChangedKeys(last_turn.state, last_turn.applied)) <= 1

\* C7: a directive is consumed by exactly the first pattern that matches it in
\* the order decrease, increase, set-resource, update-status, update-family,
\* add, generic-set, and changes at most one top-level entry; a directive
\* that starts as `set resources.<name> to <int>` is applied by the
\* resource-set pattern, never by the generic key-path pattern.
C7_FirstPatternConsumes ==
    /\ (last_turn.processed /\ Len(last_turn.modifications) = 1)
         => ConsumedByFirstMatch(FirstMatchOnly(last_turn.state, last_turn.modifications[1]))
    /\ LastTurnApplied("set resources.food to 0.5") => NatResource(initial_state, "food") = 0

C7_FirstPatternConsumes_Witness ==
    /\ LastTurnApplied("set resources.food to 0.5")
    /\ NatResource(last_turn.state, "food") = 10
    /\ NatResource(initial_state, "food") = 0

\* C8: in every state, one without a `resources` mapping included, after
\* `increase resources.X by N` resources.X is old + N when X existed and N
\* when it did not.
C8_IncreaseAddsOrCreates ==
    \A c \in IncreaseCases :
        (/\ LastTurnApplied(c.mod)
         /\ Absent(last_turn.state, c.X) \/ NatResource(last_turn.state, c.X) >= 0)
            => NatResource(initial_state, c.X) =
                 (IF Absent(last_turn.state, c.X) THEN c.N
                  ELSE NatResource(last_turn.state, c.X) + c.N)

\* C9: `decrease resources.X by N` when X is no key of `resources`, or there
\* is no `resources`, leaves the whole state unchanged: no key is created and
\* no error is raised.
C9_DecreaseOfMissingIsDropped ==
    \A c \in DecreaseCases :
        (LastTurnApplied(c.mod) /\ Absent(last_turn.state, c.X))
            => (last_turn.applied = last_turn.state /\ last_turn.errors = 0)

C9_DecreaseOfMissingIsDropped_Witness ==
    /\ LastTurnApplied("decrease resources.fuel by 1")
    /\ ~Has(last_turn.state, "resources")
    /\ last_turn.applied = last_turn.state
    /\ last_turn.errors = 0

Missing == [t |-> "missing"]

RECURSIVE ReadPath(_, _)
ReadPath(value, path) ==
    IF path = <<>> THEN value
    ELSE IF value.t = "dict" /\ Has(value, Head(path)) THEN ReadPath(Get(value, Head(path)), Tail(path))
    ELSE Missing

\* along path, every key of before that is off the path is in after with the
\* same value
RECURSIVE SiblingsKept(_, _, _)
SiblingsKept(before, after, path) ==
    \/ path = <<>>
    \/ before.t # "dict"
    \/ /\ after.t = "dict"
       /\ \A k \in (DOMAIN before.m) \ {Head(path)} : Has(after, k) /\ Get(after, k) = Get(before, k)
       /\ (Has(before, Head(path)) /\ Has(after, Head(path)))
            => SiblingsKept(Get(before, Head(path)), Get(after, Head(path)), Tail(path))

\* generic key-path directives that no earlier pattern takes, with the path
\* and the value the directive names
GenericSetCases ==
    {[mod |-> "set a.b.c to 5", p |-> <<"a", "b", "c">>, v |-> IntV(5)],
     [mod |-> "set a.b.c to 5.5", p |-> <<"a", "b", "c">>, v |-> FloatV(55, 1)],
     [mod |-> "set a.b.c to hello", p |-> <<"a", "b", "c">>, v |-> StrV("hello")],
     [mod |-> "set resources.food to .5", p |-> <<"resources", "food">>, v |-> FloatV(5, 1)],
     [mod |-> "set resources.food to -5", p |-> <<"resources", "food">>, v |-> StrV("-5")],
     [mod |-> "set resources.food.level to 3", p |-> <<"resources", "food", "level">>, v |-> IntV(3)],
     [mod |-> "set status to 5", p |-> <<"status">>, v |-> IntV(5)],
     [mod |-> "set status to Day 7", p |-> <<"status">>, v |-> StrV("Day 7")],
     [mod |-> "set status.day to 3", p |-> <<"status", "day">>, v |-> IntV(3)],
     [mod |-> "set profile.name to X", p |-> <<"profile", "name">>, v |-> StrV("X")]}

\* C11: for every state and every dotted key path p that no earlier pattern
\* handles, after `set p to v` the state read at p is v as an int when v is
\* all digits, as a float when v is digits with one decimal point, and the
\* raw string otherwise; missing mappings along p are created and the keys
\* beside the path keep their values.
C11_GenericSetRoundTrip ==
    \A c \in GenericSetCases :
        LastTurnApplied(c.mod)
            => /\ pattern_of(c.mod) = "kv"
               /\ ReadPath(last_turn.applied, c.p) = c.v
               /\ SiblingsKept(last_turn.state, last_turn.applied, c.p)

AddCases ==
    {[mod |-> "add events flood", C |-> "events", V |-> "flood"],
     [mod |-> "add events fire", C |-> "events", V |-> "fire"],
     [mod |-> "add status x", C |-> "status", V |-> "x"],
     [mod |-> "add profile X", C |-> "profile", V |-> "X"],
     [mod |-> "add resources x", C |-> "resources", V |-> "x"]}

\* what `add C V` makes of state
Added(state, C, V) ==
    IF ~Has(state, C) THEN Put(state, C, ListV(<<StrV(V)>>))
    ELSE IF Get(state, C).t = "list" THEN Put(state, C, ListV(Get(state, C).l \o <<StrV(V)>>))
    ELSE state

\* C12: `add C V` makes C the one-element sequence [V] when C is no top-level
\* key, appends V after the elements C holds, in their order, when C is a
\* sequence, and leaves the state unchanged when C holds anything else
\* (status, resources, profile); no error is reported.
C12_AddAppendsOrDrops ==
    \A c \in AddCases :
        LastTurnApplied(c.mod)
            => (last_turn.applied = Added(last_turn.state, c.C, c.V) /\ last_turn.errors = 0)

C12_AddAppendsOrDrops_Witness ==
    /\ LastTurnApplied("add events fire")
    /\ ReadPath(last_turn.state, <<"events">>) = ListV(<<StrV("flood")>>)
    /\ ReadPath(last_turn.applied, <<"events">>) = ListV(<<StrV("flood"), StrV("fire")>>)
    /\ ReadPath(last_turn.applied, <<"status">>).t = "str"

FamilyCases ==
    {[mod |-> "update family member John to injured", name |-> "John", status |-> "injured"],
     [mod |-> "update family member 'Mia' to \"safe\"", name |-> "Mia", status |-> "safe"],
     [mod |-> "update family member John to healed", name |-> "John", status |-> "healed"]}

\* C13: after `update family member <name> to <status>`, name and status
\* quoted or not, family_status[name] is status without the quotes; the
\* mapping is created when absent, the entries of the other members and the
\* other top-level keys are unchanged, and a later update of the same member
\* overwrites the earlier one.
C13_FamilyUpdateStores ==
    \A c \in FamilyCases :
        LastTurnApplied(c.mod)
            => /\ last_turn.errors = 0
               /\ ReadPath(last_turn.applied, <<"family_status", c.name>>) = StrV(c.status)
               /\ SiblingsKept(last_turn.state, last_turn.applied, <<"family_status", c.name>>)

\* the status the directives of the last turn left, Missing when there is none
AppliedStatus == ReadPath(last_turn.applied, <<"status">>)

\* the day N of the first `Day N` in the status the directives left, -1 when
\* the status is absent, is no text or names no day
AppliedDay == IF AppliedStatus.t = "str" THEN day_match(AppliedStatus.s) ELSE -1

\* C14: once the directives of a turn are applied, a status that holds
\* `Day N` with N the day counter before its increment becomes `Day N+1`; a
\* status that is absent, names no day or names another day stays as the
\* directives left it; nothing else changes.
C14_StatusBumpedOnMatchingDay ==
    last_turn.processed
        => /\ ReadPath(initial_state, <<"status">>) =
                (IF AppliedDay = last_turn.day THEN StrV("Day " \o str(last_turn.day + 1))
                 ELSE AppliedStatus)
           /\ ChangedKeys(last_turn.applied, initial_state) \subseteq {"status"}

C14_StatusBumpedOnMatchingDay_Witness ==
    /\ LastTurnApplied("update status to \"Day 1, sheltering\"")
    /\ last_turn.day = 1
    /\ AppliedStatus = StrV("Day 1, sheltering")
    /\ ReadPath(initial_state, <<"status">>) = StrV("Day 2")

\* the phase changes of the session state machine
PhaseChanges ==
    {<<"collecting_info", "generating_scenario">>,
     <<"generating_scenario", "in_simulation">>,
     <<"in_simulation", "recap">>,
     <<"recap", "generating_scenario">>,
     <<"recap", "collecting_info">>}

\* C15: the phase only changes along collecting_info -> generating_scenario
\* -> in_simulation -> recap, and from recap back to generating_scenario or
\* to collecting_info: in_simulation and generating_scenario never return to
\* collecting_info, and nothing but recap leads back to an earlier phase.
C15_OnlyListedPhaseChanges ==
    [][app_state' # app_state => <<app_state, app_state'>> \in PhaseChanges]_vars

\* a step that submits the form of collecting_info
FormSubmission == app_state = "collecting_info" /\ last_form'.submitted

\* C16: a form submitted in collecting_info moves the phase to
\* generating_scenario if and only if name and location are both non-empty;
\* with either one empty the phase and the stored session state stay as they
\* were.
C16_FormNeedsNameAndLocation ==
    [][FormSubmission
         => /\ app_state' = "generating_scenario"
                <=> (last_form'.name # "" /\ last_form'.location # "")
            /\ app_state' \in {"collecting_info", "generating_scenario"}
            /\ (last_form'.name = "" \/ last_form'.location = "")
                 => UNCHANGED <<app_state, initial_state, simulation_log, current_day,
                                crisis_description, latest_update, advice>>]_vars

C16_FormNeedsNameAndLocation_Witness ==
    /\ app_state = "collecting_info"
    /\ last_form = Submitted("Ana", "")
    /\ initial_state = EmptyDict
    /\ st_errors = {"form"}

\* C17: the phase leaves generating_scenario only for in_simulation and only
\* with a non-empty scenario text, and the same step makes the log exactly
\* [scenario] and the day counter exactly 1; an empty or failed generation
\* leaves the phase, the log, the day counter and the state as they were, and
\* generation can be tried again.
C17_ScenarioEntersSimulation ==
    /\ [](app_state = "generating_scenario" => ENABLED generate_crisis_scenario)
    /\ [][app_state = "generating_scenario"
            => \/ /\ app_state' = "in_simulation"
                  /\ crisis_description' # ""
                  /\ simulation_log' = <<crisis_description'>>
                  /\ current_day' = 1
                  /\ initial_state' = initial_state
               \/ /\ st_errors' = {"scenario"}
                  /\ UNCHANGED <<app_state, simulation_log, current_day, initial_state,
                                 crisis_description, latest_update>>]_vars

C17_ScenarioEntersSimulation_Witness ==
    /\ app_state = "in_simulation"
    /\ simulation_log = <<Scenario>>
    /\ current_day = 1
    /\ ~last_turn.processed

\* "Start a New Crisis" and "Start From Scratch" as steps of the session
NewCrisisStep == app_state = "recap" /\ app_state' = "generating_scenario"

FromScratchStep == app_state = "recap" /\ app_state' = "collecting_info"

KeptKeys == {"profile", "family", "vulnerabilities"}

\* C18: from recap, a new crisis moves to generating_scenario with a state
\* that holds exactly profile, family and vulnerabilities, each at the value
\* it had before the reset (a key the state did not hold gets its empty
\* default), and with the log, the day counter, the advice, resources, status
\* and family_status cleared; starting from scratch moves to collecting_info
\* with all of them cleared, profile included.
C18_RecapResets ==
    [][/\ NewCrisisStep
            => /\ DOMAIN initial_state'.m = KeptKeys
               /\ \A k \in KeptKeys :
                    Has(initial_state, k) => Get(initial_state', k) = Get(initial_state, k)
               /\ simulation_log' = <<>>
               /\ current_day' = 0
               /\ advice' = NoAdvice
       /\ FromScratchStep
            => /\ initial_state' = EmptyDict
               /\ simulation_log' = <<>>
               /\ current_day' = 0
               /\ advice' = NoAdvice]_vars

\* a new crisis was started after a run that changed the profile and went
\* through the advice: the changed profile is kept, the rest is gone
C18_RecapResets_Witness ==
    /\ app_state = "generating_scenario"
    /\ DOMAIN initial_state.m = KeptKeys
    /\ ReadPath(initial_state, <<"profile", "name">>) = StrV("X")
    /\ ReadPath(initial_state, <<"family">>) = StrV("2 adults")
    /\ simulation_log = <<>>
    /\ current_day = 0
    /\ advice = NoAdvice

\* the entries a turn with a non-empty action can log for it
ActionEntries == {"Your action: " \o a : a \in UserActions \ {""}}

\* C19: within a run the log is only appended to: its first entry is the
\* scenario text, every change of the log is a processed turn that appends
\* exactly two entries, `Your action: <action>` and then the narrative of
\* that turn, and the entries already there keep their value and their place.
C19_LogIsAppendOnly ==
    /\ [](InRun => (simulation_log # <<>> /\ simulation_log[1] = crisis_description))
    /\ [][(InRun /\ InRun' /\ simulation_log' # simulation_log)
            => /\ Len(simulation_log') = Len(simulation_log) + 2
               /\ SubSeq(simulation_log', 1, Len(simulation_log)) = simulation_log
               /\ simulation_log'[Len(simulation_log) + 1] \in ActionEntries
               /\ simulation_log'[Len(simulation_log) + 2] = latest_update'
               /\ last_turn'.processed]_vars
    /\ [][(last_turn'.processed /\ last_turn' # last_turn)
            => Len(simulation_log') = Len(simulation_log) + 2]_vars

C19_LogIsAppendOnly_Witness ==
    /\ InRun
    /\ simulation_log =
         <<Scenario, "Your action: wait", Narrative, "Your action: wait", Narrative>>
    /\ last_turn.processed

\* the profile the submitted form stored
FormProfile == ReadPath(FormState(frontend, last_form.name, last_form.location), <<"profile">>)

\* C20: profile is immutable after the session started: whatever directives
\* the turns of in_simulation carried, `set profile.name to X` and
\* `add profile X` included, the profile at recap is the one stored when the
\* form was submitted.
C20_ProfileIsImmutable ==
    (app_state = "recap" /\ last_form.submitted)
        => ReadPath(initial_state, <<"profile">>) = FormProfile

\* mod is dropped on state: no pattern matches it, it decreases a resource
\* that is absent, or its handler fails
Dropped(state, mod) ==
    \/ pattern_of(mod) = "none"
    \/ pattern_of(mod) = "decrease" /\ Absent(state, decrease_match(mod).resource)
    \/ apply_mod(state, mod).raised

\* the state after the directives of mods, in list order, when the dropped
\* ones leave the state alone and the others are applied to what the earlier
\* ones left
RECURSIVE KeptApplied(_, _)
KeptApplied(state, mods) ==
    IF mods = <<>> THEN state
    ELSE IF Dropped(state, Head(mods)) THEN KeptApplied(state, Tail(mods))
    ELSE KeptApplied(apply_mod(state, Head(mods)).state, Tail(mods))

\* C21: in every directive list a directive that matches no pattern, names
\* an absent key or fails while applied is dropped with the state as it was,
\* and every later directive of the list is still applied, in list order.
C21_DroppedDirectiveIsSkipped ==
    last_turn.processed
        => /\ last_turn.applied = KeptApplied(last_turn.state, last_turn.modifications)
           /\ last_turn.errors <= Len(last_turn.modifications)
           /\ last_turn.modifications =
                 <<"set resources.food.level to 3", "decrease resources.food by 15",
                   "increase resources.food by 3">>
                => (NatResource(last_turn.state, "food") >= 0
                      => /\ last_turn.errors = 1
                         /\ NatResource(last_turn.applied, "food") =
                               (IF NatResource(last_turn.state, "food") > 15
                                THEN NatResource(last_turn.state, "food") - 15
                                ELSE 0) + 3)

C21_DroppedDirectiveIsSkipped_Witness ==
    /\ last_turn.processed
    /\ last_turn.modifications = <<"set status.day to 3", "decrease resources.food by 1">>
    /\ last_turn.errors = 1
    /\ ReadPath(last_turn.state, <<"status">>) = StrV("Day 1")
    /\ ReadPath(last_turn.applied, <<"status">>) = StrV("Day 1")
    /\ NatResource(last_turn.state, "food") = 10
    /\ NatResource(last_turn.applied, "food") = 9

\* the last request was a decision and the completion API answered it with a
\* text that is not empty
DecisionTextReceived ==
    /\ last_call.made
    /\ last_call.kind = "decision"
    /\ last_call.reply.ok
    /\ content_of(last_call.reply) # ""

\* C22: a completion text that departs from the format (no narrative marker,
\* no directive block, a block that cannot be parsed) and a directive that
\* cannot be applied never show an error and never block the turn: whenever a
\* decision was answered with a text, the turn was processed with the
\* narrative and the directives the parser extracts from it, and the page
\* shows no error.
C22_MalformedTextIsAbsorbed ==
    DecisionTextReceived =>
        /\ st_errors = {}
        /\ last_turn.processed
        /\ latest_update = parse_mistral_response(content_of(last_call.reply)).next_situation
        /\ last_turn.modifications =
               parse_mistral_response(content_of(last_call.reply)).json_modifications

\* the back end answered a decision whose completion carried a text and whose
\* user action is a str: the service parsed the text
DecisionParsed ==
    /\ exchange.done
    /\ exchange.endpoint = "decision"
    /\ exchange.user_action.t = "str"
    /\ exchange.reply.ok
    /\ content_of(exchange.reply) # ""

\* the items occur in text one after the other, from position from on
RECURSIVE InOrder(_, _, _)
InOrder(text, from, items) ==
    \/ items = <<>>
    \/ /\ Find(text, Head(items), from) > 0
       /\ InOrder(text, Find(text, Head(items), from) + Len(Head(items)), Tail(items))

\* C23: the parser is total.  For every text it returns a narrative and a
\* list of directives and does not raise; the narrative is empty when the text
\* has no NEXT_SITUATION_DESCRIPTION: marker, the list is empty when it has no
\* JSON_MODIFICATIONS: marker, and every directive is non-empty, trimmed and
\* listed in the order in which it appears in the text.
C23_ParserIsTotal ==
    DecisionParsed =>
        /\ exchange.envelope.status = 200
        /\ DOMAIN exchange.envelope.data = {"next_situation", "json_modifications"}
        /\ \E text \in {content_of(exchange.reply)} :
             \E narrative \in {exchange.envelope.data.next_situation} :
               \E directives \in {exchange.envelope.data.json_modifications} :
                 /\ ~Contains(text, "NEXT_SITUATION_DESCRIPTION:") => narrative = ""
                 /\ ~Contains(text, "JSON_MODIFICATIONS:") => directives = <<>>
                 /\ \A i \in DOMAIN directives :
                      directives[i] # "" /\ strip(directives[i]) = directives[i]
                 /\ InOrder(text, 1, directives)

C23_ParserIsTotal_Witness ==
    /\ DecisionParsed
    /\ content_of(exchange.reply) = "\nJSON_MODIFICATIONS:\n- set a to 1\n\n- go"
    /\ exchange.envelope.data.next_situation = ""
    /\ exchange.envelope.data.json_modifications = <<"set a to 1", "go">>

\* text holds both markers, JSON_MODIFICATIONS: only before the first
\* NEXT_SITUATION_DESCRIPTION:
Reversed(text) ==
    /\ Find(text, "JSON_MODIFICATIONS:", 1) > 0
    /\ Find(text, "NEXT_SITUATION_DESCRIPTION:", 1) > Find(text, "JSON_MODIFICATIONS:", 1)
    /\ Find(text, "JSON_MODIFICATIONS:", Find(text, "NEXT_SITUATION_DESCRIPTION:", 1)) = 0

\* C24: a text in which JSON_MODIFICATIONS: comes before
\* NEXT_SITUATION_DESCRIPTION: is parsed without an exception and its
\* narrative is the empty string.
C24_ReversedMarkersGiveNoNarrative ==
    (DecisionParsed /\ Reversed(content_of(exchange.reply))) =>
        /\ exchange.envelope.status = 200
        /\ exchange.envelope.data.next_situation = ""

\* the text that follows the first NEXT_SITUATION_DESCRIPTION: of text
AfterNarrativeMarker(text) ==
    SubSeq(text,
           Find(text, "NEXT_SITUATION_DESCRIPTION:", 1) + Len("NEXT_SITUATION_DESCRIPTION:"),
           Len(text))

\* C24, as the code has it: a text in which JSON_MODIFICATIONS: comes before
\* NEXT_SITUATION_DESCRIPTION: is parsed without an exception, and its
\* narrative is the trimmed text that follows NEXT_SITUATION_DESCRIPTION: up to
\* the end of the text.
C24_ReversedMarkersKeepNarrative ==
    (DecisionParsed /\ Reversed(content_of(exchange.reply))) =>
        /\ exchange.envelope.status = 200
        /\ exchange.envelope.data.next_situation =
               strip(AfterNarrativeMarker(content_of(exchange.reply)))

C24_ReversedMarkersKeepNarrative_Witness ==
    /\ DecisionParsed
    /\ content_of(exchange.reply) =
          "\nJSON_MODIFICATIONS:\n- set a to 1\nNEXT_SITUATION_DESCRIPTION: calm"
    /\ Reversed(content_of(exchange.reply))
    /\ exchange.envelope.data.next_situation = "calm"

\* position of the first JSON_MODIFICATIONS: after the first
\* NEXT_SITUATION_DESCRIPTION: of text, 0 when the text does not hold both
\* markers in that order
NextModsMarker(text) ==
    IF Find(text, "NEXT_SITUATION_DESCRIPTION:", 1) = 0 THEN 0
    ELSE Find(text, "JSON_MODIFICATIONS:",
              Find(text, "NEXT_SITUATION_DESCRIPTION:", 1) + Len("NEXT_SITUATION_DESCRIPTION:"))

\* the text strictly between the two markers
BetweenMarkers(text) ==
    SubSeq(text,
           Find(text, "NEXT_SITUATION_DESCRIPTION:", 1) + Len("NEXT_SITUATION_DESCRIPTION:"),
           NextModsMarker(text) - 1)

\* C25: for every text that holds both markers in the documented order, the
\* narrative is the trimmed text strictly between NEXT_SITUATION_DESCRIPTION:
\* and the next JSON_MODIFICATIONS:; it never holds that marker or what follows
\* it, whether or not the marker starts a new line.
C25_NarrativeStopsAtModsMarker ==
    (DecisionParsed /\ NextModsMarker(content_of(exchange.reply)) > 0) =>
        /\ exchange.envelope.status = 200
        /\ exchange.envelope.data.next_situation =
               strip(BetweenMarkers(content_of(exchange.reply)))
        /\ ~Contains(exchange.envelope.data.next_situation, "JSON_MODIFICATIONS:")

\* a line of text that begins with a dash, after position from
DashLineAfter(text, from) ==
    \E j \in (from + 1)..Len(text) : Ch(text, j) = "-" /\ Ch(text, j - 1) = "\n"

\* C26: for every text that holds both markers in the documented order and
\* at least one line beginning with a dash after JSON_MODIFICATIONS:, the
\* parser returns a directive list that is not empty.
C26_DashLineGivesDirective ==
    (/\ DecisionParsed
     /\ NextModsMarker(content_of(exchange.reply)) > 0
     /\ DashLineAfter(content_of(exchange.reply), NextModsMarker(content_of(exchange.reply)))) =>
        /\ exchange.envelope.status = 200
        /\ exchange.envelope.data.json_modifications # <<>>

\* the failures of the completion client: transport error, status other than
\* 2xx, response body that is malformed or lacks the expected fields
ClientFailures == {Failure, StatusFailure, BodyFailure, Unfilled}

\* the envelope the handler of endpoint answers when the completion API does c
Handled(endpoint, user_action, c) ==
    CASE endpoint = "chat"     -> chat(c)
      [] endpoint = "scenario" -> create_crisis_scenario(c)
      [] endpoint = "decision" -> process_decision_request(user_action, c)
      [] OTHER                 -> get_crisis_advice(c)

\* C27: every failure of the completion client (transport error, non-2xx
\* status, malformed response body) yields the one "no response" outcome, and
\* every caller tells that outcome from a completion whose text is the empty
\* string: the answer to an empty completion differs from the answer to a
\* failed one.
C27_NoResponseIsNotEmptyText ==
    (exchange.done /\ exchange.user_action.t = "str") =>
        /\ exchange.reply \in ClientFailures => get_mistral_response(exchange.reply) = None
        /\ exchange.reply = Completion("") =>
               exchange.envelope # Handled(exchange.endpoint, exchange.user_action, Failure)

\* the last request for a completion was of this kind and failed: the
\* completion API, or the back end on the way to it, gave no response
LastCallFailed(kind) ==
    /\ last_call.made
    /\ last_call.kind = kind
    /\ ~last_call.reply.ok

\* C28: after a failure of the completion client in a phase that calls it
\* (scenario generation, a simulation turn, the advice of the recap), the
\* failure is shown, the session stays in the phase and the same request can
\* be issued again, and nothing of the failed call is stored as a result.
C28_FailedCallCanBeRetried ==
    /\ LastCallFailed("scenario") =>
          /\ app_state = "generating_scenario"
          /\ st_errors = {"scenario"}
          /\ crisis_description = "" /\ simulation_log = <<>>
          /\ ENABLED generate_crisis_scenario
    /\ LastCallFailed("decision") =>
          /\ app_state = "in_simulation"
          /\ ENABLED run_simulation(TurnDecisions, MaxTurns)
    /\ LastCallFailed("advice") =>
          /\ app_state = "recap"
          /\ advice = NoAdvice
          /\ ENABLED generate_advice

\* the service under the handler of the request returned a value other than
\* None: a text, or the parsed pair of a decision
ServiceReturned(request) ==
    IF request.endpoint = "decision"
    THEN ~decision_raises(request.user_action) /\ process_user_decision(request.reply) # None
    ELSE get_mistral_response(request.reply) # None

\* C29: each of the four POST endpoints always answers with an envelope of
\* the keys status, message and data and never raises: status 200 with a data
\* that is not null exactly when the service under it returned a result,
\* status 500 with a null data when the service returned nothing or raised.
C29_EnvelopeTellsServiceResult ==
    exchange.done =>
        /\ DOMAIN exchange.envelope = {"status", "message", "data"}
        /\ (exchange.envelope.status = 200 /\ exchange.envelope.data # None)
              <=> ServiceReturned(exchange)
        /\ ~ServiceReturned(exchange) =>
              (exchange.envelope.status = 500 /\ exchange.envelope.data = None)

\* the last n entries of log
LastEntries(log, n) == SubSeq(log, Len(log) - n + 1, Len(log))

\* this step sends a decision
DecisionSent == last_call' # last_call /\ last_call'.made /\ last_call'.kind = "decision"

\* C30: the recent events sent with a turn are the last min(3, len(log))
\* entries of the simulation log, in log order, taken before the two entries of
\* the turn are appended; the window never holds more than 3 entries.
C30_RecentEventsAreLastThree ==
    [][DecisionSent =>
          /\ last_call'.recent_events =
                LastEntries(simulation_log, Min({3, Len(simulation_log)}))
          /\ Len(last_call'.recent_events) <= 3]_vars

C30_RecentEventsAreLastThree_Witness ==
    /\ last_call.made
    /\ last_call.kind = "decision"
    /\ last_turn.processed
    /\ Len(simulation_log) = 7
    /\ st_errors = {}
    /\ last_call.recent_events = SubSeq(simulation_log, 3, 5)
    /\ last_call.recent_events[1] = Narrative
    /\ last_call.recent_events[2] = "Your action: wait"
\* the keys of the session that hold the simulation
simulation_keys == <<app_state, initial_state, simulation_log, current_day,
                     crisis_description, latest_update, advice>>

\* C31: while the stored phase is none of the four known phases, a script run
\* changes none of the keys that hold the simulation and offers the reset; the
\* step that leaves the unknown phase is that reset, and the run after it
\* starts in collecting_info with an empty state, an empty log, the day
\* counter 0 and no advice.
C31_UnknownPhaseOnlyResets ==
    /\ [](unknown_state => ENABLED reset_unknown)
    /\ [][unknown_state =>
            IF unknown_state'
            THEN UNCHANGED simulation_keys
            ELSE app_state' = "collecting_info" /\ Fresh' /\ st_errors' = {}]_vars

\* the reset was clicked on the page of an unknown phase (the phase
\* specification starts in one): the session is fresh again
C31_UnknownPhaseOnlyResets_Witness ==
    /\ ~unknown_state
    /\ Fresh
    /\ st_errors = {}

\* C32: a run in which every submitted turn is processed is in recap after at
\* most 10 processed turns, whatever the directives of those turns: no state
\* of in_simulation has 10 processed turns behind it.
C32_RecapWithinTenTurns == app_state = "in_simulation" => ProcessedTurns < 10

\* C33: whenever the phase is in_simulation or recap the log has
\* 2 * current_day - 1 entries: the scenario, and two entries for each day
\* that went by.
C33_LogTracksDay == InRun => Len(simulation_log) = 2 * current_day - 1

NoNarrative(reply) ==
    \/ ~reply.ok
    \/ ~reply.filled
    \/ parse_mistral_response(reply.text).next_situation = ""

\* a step of in_simulation that is a turn without action (no request is made)
\* or a turn whose request was answered without a narrative
TurnNotProcessed ==
    /\ app_state = "in_simulation"
    /\ \/ last_call' = last_call
       \/ last_call'.kind = "decision" /\ NoNarrative(last_call'.reply)

\* C35: a turn that is not processed (empty user action, failed request, or a
\* completion whose parsed narrative is empty) leaves the state, the log, the
\* latest narrative, the day counter and the phase unchanged: the directives
\* of its completion, if any, are not applied.
C35_UnprocessedTurnChangesNothing ==
    [][TurnNotProcessed =>
          UNCHANGED <<initial_state, simulation_log, latest_update, current_day,
                      app_state>>]_vars

\* a completion with a directive and no narrative was refused: food is still
\* the 10 of the form and the log still holds the scenario alone
C35_UnprocessedTurnChangesNothing_Witness ==
    /\ last_call.made
    /\ last_call.kind = "decision"
    /\ last_call.reply = Completion("JSON_MODIFICATIONS:\n- decrease resources.food by 1")
    /\ st_errors = {"decision"}
    /\ NatResource(initial_state, "food") = 10
    /\ simulation_log = <<Scenario>>
    /\ current_day = 1

\* food or water was at 0 after one of the modifications of the last turn
\* that is not its last one
DepletedMidTurn ==
    \E k \in 1 .. Len(last_turn.modifications) - 1 :
        Depleted(apply_all(last_turn.state, SubSeq(last_turn.modifications, 1, k)).state)

\* C36: exhaustion is judged on the state that all the directives of a turn
\* leave: a processed turn that ends with food or water at 0 moves the phase
\* to recap, and one in which food or water was at 0 before a later directive
\* raised it stays in in_simulation (the day cap aside).
C36_ExhaustionJudgedAtTurnEnd ==
    last_turn.processed =>
        /\ Depleted(initial_state) => app_state = "recap"
        /\ (DepletedMidTurn /\ ~Depleted(initial_state) /\ current_day <= 10)
               => app_state = "in_simulation"

\* the status of state is the text "Day <day>"
StatusIsDay(state, day) ==
    /\ Has(state, "status")
    /\ Get(state, "status") = StrV("Day " \o str(day))

\* the step processes a turn (the log gains its two entries) whose
\* directives leave the status as it was
TurnKeepingStatus ==
    /\ app_state = "in_simulation"
    /\ Len(simulation_log') = Len(simulation_log) + 2
    /\ Has(initial_state, "status")
    /\ Has(last_turn'.applied, "status")
    /\ Get(last_turn'.applied, "status") = Get(initial_state, "status")

\* C37: in a run seeded with the status "Day 1" the status is
\* "Day <current_day>" after every processed turn, as long as no directive
\* changes the status: the run starts with the day counter 1, and a processed
\* turn whose directives leave the status alone takes "Day <current_day>" and
\* the counter to the next day together.
C37_StatusTracksDay ==
    /\ []((InRun /\ ProcessedTurns = 0) => current_day = 1)
    /\ [][(TurnKeepingStatus /\ StatusIsDay(initial_state, current_day))
            => /\ current_day' = current_day + 1
               /\ StatusIsDay(initial_state', current_day')]_vars

\* the standalone front end after the turn of day 10: status "Day 11"
C37_StatusTracksDay_Witness ==
    /\ frontend = "standalone"
    /\ last_turn.processed
    /\ last_turn.day = 10
    /\ StatusIsDay(last_turn.state, 10)
    /\ StatusIsDay(initial_state, 11)
    /\ current_day = 11

\* state has neither a resources key nor a status key
Bare(state) == ~Has(state, "resources") /\ ~Has(state, "status")

\* the last turn carried one directive, a decrease of a resource
LastTurnDecreased == \E c \in DecreaseCases \cup {[mod |-> "decrease resources.food by 5"],
                                                  [mod |-> "decrease resources.medicine by 5"]} :
                        LastTurnApplied(c.mod)

\* C38: "Start a New Crisis" leaves a state without resources and without
\* status.  From such a state a turn with a `decrease resources.X by N` changes
\* nothing; as long as the directives create no status the code after them
\* stores none; and while the state has no resources a turn moves the phase to
\* recap only through the day cap.
C38_NewCrisisRunEndsByDayCap ==
    /\ [][NewCrisisStep => Bare(initial_state')]_vars
    /\ []((last_turn.processed /\ Bare(last_turn.state) /\ LastTurnDecreased)
            => initial_state = last_turn.state)
    /\ []((last_turn.processed /\ ~Has(last_turn.applied, "status"))
            => initial_state = last_turn.applied)
    /\ []((last_turn.processed /\ ~Has(initial_state, "resources") /\ app_state = "recap")
            => current_day > 10)

\* a new crisis of the standalone front end (its form state has resources)
\* after ten turns: the last one decreased a resource that is not there, and
\* the day cap ended the run
C38_NewCrisisRunEndsByDayCap_Witness ==
    /\ frontend = "standalone"
    /\ app_state = "recap"
    /\ Bare(initial_state)
    /\ LastTurnApplied("decrease resources.food by 5")
    /\ Bare(last_turn.state)
    /\ current_day = 11

\* path p leaves the mappings of state: one of its proper prefixes leads to a
\* value that is there and is no mapping
ThroughNonMapping(state, p) ==
    \E k \in 1 .. Len(p) - 1 :
        /\ ReadPath(state, SubSeq(p, 1, k)) # Missing
        /\ ReadPath(state, SubSeq(p, 1, k)).t # "dict"

\* the last turn started with a generic set whose path leaves the mappings of
\* the state the turn started from
LastTurnBlockedSet ==
    /\ last_turn.processed
    /\ last_turn.modifications # <<>>
    /\ \E c \in GenericSetCases :
          /\ Head(last_turn.modifications) = c.mod
          /\ ThroughNonMapping(last_turn.state, c.p)

\* C39: a generic `set <path> to <value>` whose path passes through a value
\* that is there and is no mapping leaves the state unchanged, and the rest of
\* the turn takes place: the state after the loop is the one the remaining
\* directives give, the day counter is advanced, and a status that names the
\* day is moved to the next day.
C39_BlockedSetLeavesTurnIntact ==
    LastTurnBlockedSet =>
        /\ last_turn.applied = KeptApplied(last_turn.state, Tail(last_turn.modifications))
        /\ last_turn.errors >= 1
        /\ current_day = last_turn.day + 1
        /\ StatusIsDay(last_turn.applied, last_turn.day)
              => StatusIsDay(initial_state, last_turn.day + 1)

====
